---------------------------- MODULE Spec2Model ----------------------------
(***************************************************************************)
(* Block store of a blockchain node (koinos-block-store).                  *)
(*                                                                         *)
(* A key-value backend holds one BlockRecord per block id; every record    *)
(* carries a skip list of ancestor ids (previous_block_ids) at             *)
(* exponentially spaced heights.  A reserved key holds the topology of the *)
(* highest block seen.  The module models the request handler              *)
(* (internal/bstore/reqhandler.go), the map backend and the protobuf       *)
(* encoding of the stored values.                                          *)
(*                                                                         *)
(* Byte strings are integers: EmptyBytes is the zero-length string (Go nil *)
(* and empty slices have the same encoding), NilBytes is a Go nil where    *)
(* the code tests for nil, HighestBlockKey is the one-byte key 0x01,       *)
(* ZeroBlockID the all-zero multihash and Ids the block identifiers.       *)
(* Optional messages are sequences of length at most one.                  *)
(***************************************************************************)
EXTENDS Integers, Sequences, FiniteSets, TLC

\* ------------------------------------------------------------------ bounds
\* number of distinct block identifiers offered to the general handler
NumIds == 3
\* number of distinct block identifiers offered when a fork tree is built
NumTreeIds == 5
\* greatest block height offered
MaxHeight == 4
\* greatest num_blocks of a GetBlocksByHeight request
MaxNumBlocks == 2
\* number of distinct receipts
NumReceipts == 1
\* greatest length of the id list of a GetBlocksByID request
MaxReqIds == 2
\* number of concurrent UpdateHighestBlock callers
NumCallers == 2
\* greatest number of UpdateHighestBlock calls in one run
MaxCalls == 3

\* the number of operations that change a backend
MaxOps == 3

\* the greatest of the consecutive heights given to the skip-list functions
MaxMathHeight == 40

\* the greatest length of the single chain of the ancestor walks
MaxChainHeight == 33

\* number of distinct block identifiers offered through the dispatcher
NumDispatchIds == 2

\* --------------------------------------------------------------- constants
NilBytes == -1
EmptyBytes == 0
HighestBlockKey == 1
ZeroBlockID == 10
IdBase == 10

Ids == (IdBase + 1)..(IdBase + NumIds)
TreeIds == (IdBase + 1)..(IdBase + NumTreeIds)
Heights == 0..MaxHeight
Receipts == {<<>>} \cup {<<r>> : r \in 1..NumReceipts}

Len0(b) == b \in {NilBytes, EmptyBytes}

\* ------------------------------------------------------------------- codec
\* proto3 wire format: a sequence of <<field, value>> entries in field
\* order; scalar and bytes fields at their default are omitted, a repeated
\* field contributes one entry per element, a nil message is omitted.
FieldValues(bytes, tag) ==
    LET sel == SelectSeq(bytes, LAMBDA e : e[1] = tag)
    IN  [i \in 1..Len(sel) |-> sel[i][2]]

LastOr(vals, default) == IF vals = <<>> THEN default ELSE vals[Len(vals)]

BytesField(tag, b) == IF Len0(b) THEN <<>> ELSE << <<tag, b>> >>

UintField(tag, n) == IF n = 0 THEN <<>> ELSE << <<tag, n>> >>

MessageField(tag, m) == IF m = <<>> THEN <<>> ELSE << <<tag, m[1]>> >>

\* a nil element is written as the empty byte string
RepeatedBytesField(tag, bs) ==
    [i \in 1..Len(bs) |-> <<tag, IF bs[i] = NilBytes THEN EmptyBytes ELSE bs[i]>>]

OptionalOf(vals) == IF vals = <<>> THEN <<>> ELSE << vals[Len(vals)] >>

\* proto.Unmarshal fails on bytes that are not a well-formed message
UnmarshalError(bytes) == \E i \in 1..Len(bytes) : bytes[i][1] = "malformed"

ProtoParseError == "proto: cannot parse invalid wire-format data"

MarshalRecord(record) ==
    BytesField("block_id", record.blockId)
    \o UintField("block_height", record.blockHeight)
    \o RepeatedBytesField("previous_block_ids", record.previousBlockIds)
    \o MessageField("block", record.block)
    \o MessageField("receipt", record.receipt)

UnmarshalRecord(bytes) ==
    [ blockId          |-> LastOr(FieldValues(bytes, "block_id"), EmptyBytes),
      blockHeight      |-> LastOr(FieldValues(bytes, "block_height"), 0),
      previousBlockIds |-> FieldValues(bytes, "previous_block_ids"),
      block            |-> OptionalOf(FieldValues(bytes, "block")),
      receipt          |-> OptionalOf(FieldValues(bytes, "receipt")) ]

MarshalTopology(topology) ==
    BytesField("id", topology.id)
    \o UintField("height", topology.height)
    \o BytesField("previous", topology.previous)

UnmarshalTopology(bytes) ==
    [ id       |-> LastOr(FieldValues(bytes, "id"), EmptyBytes),
      height   |-> LastOr(FieldValues(bytes, "height"), 0),
      previous |-> LastOr(FieldValues(bytes, "previous"), EmptyBytes) ]

\* ----------------------------------------------------------------- backend
\* MapBackend: storage is a map from key to value; results are
\* [err, val] records, err = "" meaning no error.
Ok(v) == [err |-> "", val |-> <<v>>]

Fail(e) == [err |-> e, val |-> <<>>]

\* a Go panic (nil pointer dereference) in place of a result
PanicNilDeref == "panic: invalid memory address or nil pointer dereference"

\* a read that reports a key that is not stored as an error
GetAbsentFails(store, key) ==
    IF key = NilBytes THEN Fail("cannot get a nil key")
    ELSE IF key = EmptyBytes THEN Fail("cannot get an empty key")
    ELSE IF key \in DOMAIN store THEN Ok(store[key])
    ELSE Fail("Key not found")

Get(store, key) ==
    IF key = NilBytes THEN Fail("cannot get a nil key")
    ELSE IF key = EmptyBytes THEN Fail("cannot get an empty key")
    ELSE IF key \in DOMAIN store THEN Ok(store[key])
    ELSE Ok(<<>>)

PutError(key) ==
    IF key = NilBytes THEN "cannot put a nil key"
    ELSE IF key = EmptyBytes THEN "cannot put an empty key"
    ELSE ""

\* a put that drops every other key of the store
PutAlone(store, key, value) == [k \in {key} |-> value]

\* a put that appends to the value already stored
PutAppend(store, key, value) ==
    [k \in DOMAIN store \cup {key} |->
        IF k # key THEN store[k]
        ELSE IF key \in DOMAIN store THEN store[key] \o value ELSE value]

Put(store, key, value) ==
    [k \in DOMAIN store \cup {key} |-> IF k = key THEN value ELSE store[k]]

\* MapBackend.Put; valueIsNil tells a nil value from an empty one: [err, store]
MapPut(store, key, valueIsNil, value) ==
    IF PutError(key) # "" THEN [err |-> PutError(key), store |-> store]
    ELSE IF valueIsNil THEN [err |-> "cannot put a nil value", store |-> store]
    ELSE [err |-> "", store |-> Put(store, key, value)]

\* BadgerBackend.Put: the transaction refuses an empty key
BadgerPut(store, key, valueIsNil, value) ==
    IF key = NilBytes THEN [err |-> "cannot put a nil key", store |-> store]
    ELSE IF valueIsNil THEN [err |-> "cannot put a nil value", store |-> store]
    ELSE IF key = EmptyBytes THEN [err |-> "Key cannot be empty", store |-> store]
    ELSE [err |-> "", store |-> Put(store, key, value)]

\* BadgerBackend.Get: a key that is not found gives the empty value
BadgerGet(store, key) ==
    IF key = NilBytes THEN Fail("cannot get a nil key")
    ELSE IF key = EmptyBytes THEN Fail("Key cannot be empty")
    ELSE IF key \in DOMAIN store THEN Ok(store[key])
    ELSE Ok(<<>>)

\* a put that refuses the nil key only
BackendPutNilKeyOnly(kind, store, key, valueIsNil, value) ==
    IF key = NilBytes THEN [err |-> "cannot put a nil key", store |-> store]
    ELSE IF valueIsNil THEN [err |-> "cannot put a nil value", store |-> store]
    ELSE [err |-> "", store |-> Put(store, key, value)]

BackendPut(kind, store, key, valueIsNil, value) ==
    IF kind = "map" THEN MapPut(store, key, valueIsNil, value)
    ELSE BadgerPut(store, key, valueIsNil, value)

BackendGet(kind, store, key) ==
    IF kind = "map" THEN Get(store, key) ELSE BadgerGet(store, key)

\* the error of Delete for the key, "" when there is none
DeleteError(kind, key) ==
    IF key = NilBytes THEN "cannot remove a nil key"
    ELSE IF key = EmptyBytes
      THEN IF kind = "map" THEN "cannot remove an empty key" ELSE "Key cannot be empty"
    ELSE ""

\* a delete that reports success and removes nothing
BackendDeleteNothing(kind, store, key) ==
    [err |-> DeleteError(kind, key), store |-> store]

\* Delete of either backend: [err, store]
BackendDelete(kind, store, key) ==
    IF DeleteError(kind, key) # "" THEN [err |-> DeleteError(kind, key), store |-> store]
    ELSE [err |-> "", store |-> [k \in DOMAIN store \ {key} |-> store[k]]]

\* Reset of either backend: the empty store
BackendReset(kind, store) == [err |-> "", store |-> <<>>]

\* ---------------------------------------------------------- skip-list math
RECURSIVE TrailingZeros(_)
TrailingZeros(x) == IF x % 2 = 1 THEN 0 ELSE 1 + TrailingZeros(x \div 2)

\* a loop that stops one index early (i < zeros)
getPreviousHeightsShort(x) ==
    IF x = 0 THEN <<>>
    ELSE [i \in 1..TrailingZeros(x) |-> x - 2^(i - 1)]

getPreviousHeights(x) ==
    IF x = 0 THEN <<>>
    ELSE [i \in 1..(TrailingZeros(x) + 1) |-> x - 2^(i - 1)]

\* a scan that takes the farthest link whether or not it passes the goal
PreviousHeightScanGreedy(g, x, zeros, i, lastH) == <<zeros, x - 2^zeros>>

\* a scan that always takes the link to the height below
PreviousHeightScanNearest(g, x, zeros, i, lastH) == <<0, x - 1>>

\* the loop of getPreviousHeightIndex from index i on, lastH being the
\* height of the previous index; the result is <<index, height>>
RECURSIVE PreviousHeightScan(_, _, _, _, _)
PreviousHeightScan(g, x, zeros, i, lastH) ==
    IF i > zeros THEN <<zeros, lastH>>
    ELSE IF x - 2^i < g THEN <<i - 1, lastH>>
    ELSE PreviousHeightScan(g, x, zeros, i + 1, x - 2^i)

getPreviousHeightIndex(goal, current) ==
    IF goal >= current THEN Fail("Block height mismatch")
    ELSE Ok(PreviousHeightScan(goal, current, TrailingZeros(current), 0, 0))

\* --------------------------------------------------------- ancestry engine
\* stands for 2^64 - 1, the result of 0 - 1 on a uint64
MaxUint64 == 2147483647

WrapDec(h) == IF h = 0 THEN MaxUint64 ELSE h - 1

BlockNotPresent(blockID) == "Block not present - ID: " \o ToString(blockID)

\* a height lookup that takes a block that is not stored for one of height 0
getBlockHeightOrZero(store, blockID) ==
    LET got == Get(store, blockID)
    IN  IF got.err # "" THEN Fail(got.err)
        ELSE IF Len(got.val[1]) = 0 THEN Ok(0)
        ELSE IF UnmarshalError(got.val[1]) THEN Fail(ProtoParseError)
        ELSE Ok(UnmarshalRecord(got.val[1]).blockHeight)

getBlockHeight(store, blockID) ==
    LET got == Get(store, blockID)
    IN  IF got.err # "" THEN Fail(got.err)
        ELSE IF Len(got.val[1]) = 0 THEN Fail(BlockNotPresent(blockID))
        ELSE IF UnmarshalError(got.val[1]) THEN Fail(ProtoParseError)
        ELSE Ok(UnmarshalRecord(got.val[1]).blockHeight)

\* the loop of getAncestorIDAtHeight returns the result
Returns(result) ==
    [done |-> TRUE, result |-> result, blockID |-> EmptyBytes, expected |-> 0,
     linked |-> FALSE]

\* the loop returns the link it has just followed
ReturnsLink(blockID) == [Returns(Ok(blockID)) EXCEPT !.linked = TRUE]

\* the loop of getAncestorIDAtHeight goes round with blockID and expectedHeight
Continues(blockID, expected) ==
    [done |-> FALSE, result |-> Ok(EmptyBytes), blockID |-> blockID,
     expected |-> expected, linked |-> TRUE]

\* an iteration that does not compare the height of the record it fetched
\* with the height of the link it followed
AncestorStepUnchecked(store, blockID, height, expected) ==
    LET got == Get(store, blockID)
    IN  IF got.err # "" THEN Returns(Fail(got.err))
        ELSE IF Len(got.val[1]) = 0 THEN Returns(Fail(BlockNotPresent(blockID)))
        ELSE IF UnmarshalError(got.val[1]) THEN Returns(Fail(ProtoParseError))
        ELSE
          LET record == UnmarshalRecord(got.val[1])
              idx    == getPreviousHeightIndex(height, record.blockHeight)
          IN  IF FALSE
                THEN Returns(Fail("Unexpected height (corrupt block store?)"))
              ELSE IF record.blockHeight = height THEN Returns(Ok(record.blockId))
              ELSE IF idx.err # "" THEN Returns(Fail(idx.err))
              ELSE
                LET newIndex  == idx.val[1][1]
                    newHeight == idx.val[1][2]
                IN  IF newIndex >= Len(record.previousBlockIds)
                      THEN Returns(Fail("Unexpected height (corrupt block store?)"))
                    ELSE IF newHeight = height
                      THEN ReturnsLink(record.previousBlockIds[newIndex + 1])
                    ELSE Continues(record.previousBlockIds[newIndex + 1], newHeight)

\* one iteration of the loop of getAncestorIDAtHeight, with its one Get;
\* expected is <<>> while hasExpectedHeight is false
AncestorStep(store, blockID, height, expected) ==
    LET got == Get(store, blockID)
    IN  IF got.err # "" THEN Returns(Fail(got.err))
        ELSE IF Len(got.val[1]) = 0 THEN Returns(Fail(BlockNotPresent(blockID)))
        ELSE IF UnmarshalError(got.val[1]) THEN Returns(Fail(ProtoParseError))
        ELSE
          LET record == UnmarshalRecord(got.val[1])
              idx    == getPreviousHeightIndex(height, record.blockHeight)
          IN  IF expected # <<>> /\ record.blockHeight # expected[1]
                THEN Returns(Fail("Unexpected height (corrupt block store?)"))
              ELSE IF record.blockHeight = height THEN Returns(Ok(record.blockId))
              ELSE IF idx.err # "" THEN Returns(Fail(idx.err))
              ELSE
                LET newIndex  == idx.val[1][1]
                    newHeight == idx.val[1][2]
                IN  IF newIndex >= Len(record.previousBlockIds)
                      THEN Returns(Fail("Unexpected height (corrupt block store?)"))
                    ELSE IF newHeight = height
                      THEN ReturnsLink(record.previousBlockIds[newIndex + 1])
                    ELSE Continues(record.previousBlockIds[newIndex + 1], newHeight)

\* the iterations of the loop of getAncestorIDAtHeight from one on
RECURSIVE AncestorLoop(_, _, _, _)
AncestorLoop(store, blockID, height, expected) ==
    LET step == AncestorStep(store, blockID, height, expected)
    IN  IF step.done THEN step.result
        ELSE AncestorLoop(store, step.blockID, height, <<step.expected>>)

getAncestorIDAtHeight(store, blockID, height) ==
    AncestorLoop(store, blockID, height, <<>>)

\* ------------------------------------------------------------- write path
\* a block is [id, header]; header is <<>> (nil) or <<[previous, height]>>
GetHeaderHeight(block) == IF block.header = <<>> THEN 0 ELSE block.header[1].height

GetHeaderPrevious(block) ==
    IF block.header = <<>> THEN EmptyBytes ELSE block.header[1].previous

\* a skip-list entry that is the declared previous at every index
SkipEntryParentOnly(store, block, h) ==
    IF h >= GetHeaderHeight(block) THEN Fail("Internal constraint was violated")
    ELSE Ok(GetHeaderPrevious(block))

\* the skip-list entry of AddBlock for the previous height h
SkipEntry(store, block, h) ==
    IF h >= GetHeaderHeight(block) THEN Fail("Internal constraint was violated")
    ELSE IF h = GetHeaderHeight(block) - 1 THEN Ok(GetHeaderPrevious(block))
    ELSE getAncestorIDAtHeight(store, GetHeaderPrevious(block), h)

\* an AddBlock that puts the record with the entries it has resolved when an
\* entry does not resolve
AddBlockPutsPartial(store, blockToAdd, receiptToAdd) ==
    IF blockToAdd = <<>>
      THEN [err |-> "Cannot add empty optional block", store |-> store]
    ELSE
      LET block == blockToAdd[1]
      IN  IF block.header = <<>>
            THEN [err |-> PanicNilDeref, store |-> store]
          ELSE
            LET height  == GetHeaderHeight(block)
                ph      == getPreviousHeights(height)
                entries == [i \in 1..Len(ph) |-> SkipEntry(store, block, ph[i])]
                failed  == {i \in 1..Len(ph) : entries[i].err # ""}
                first   == CHOOSE i \in failed : \A j \in failed : i <= j
                upTo    == IF failed = {} THEN Len(ph) ELSE first - 1
                prevIds == IF height > 1
                             THEN [i \in 1..upTo |-> entries[i].val[1]]
                             ELSE <<GetHeaderPrevious(block)>>
                record  == [ blockId          |-> block.id,
                             blockHeight      |-> height,
                             previousBlockIds |-> prevIds,
                             block            |-> <<block>>,
                             receipt          |-> receiptToAdd ]
            IN  IF PutError(record.blockId) # ""
                  THEN [err |-> PutError(record.blockId), store |-> store]
                ELSE [err |-> IF height > 1 /\ failed # {}
                                THEN entries[first].err ELSE "",
                      store |-> Put(store, record.blockId, MarshalRecord(record))]

\* the result of AddBlock: [err, store]; blockToAdd and receiptToAdd are
\* optional messages; a nil header is dereferenced (block.Header.Height)
AddBlockResult(store, blockToAdd, receiptToAdd) ==
    IF blockToAdd = <<>>
      THEN [err |-> "Cannot add empty optional block", store |-> store]
    ELSE
      LET block == blockToAdd[1]
      IN  IF block.header = <<>>
            THEN [err |-> PanicNilDeref, store |-> store]
          ELSE
            LET height  == GetHeaderHeight(block)
                ph      == getPreviousHeights(height)
                entries == [i \in 1..Len(ph) |-> SkipEntry(store, block, ph[i])]
                failed  == {i \in 1..Len(ph) : entries[i].err # ""}
                first   == CHOOSE i \in failed : \A j \in failed : i <= j
                prevIds == IF height > 1
                             THEN [i \in 1..Len(ph) |-> entries[i].val[1]]
                             ELSE <<GetHeaderPrevious(block)>>
                record  == [ blockId          |-> block.id,
                             blockHeight      |-> height,
                             previousBlockIds |-> prevIds,
                             block            |-> <<block>>,
                             receipt          |-> receiptToAdd ]
            IN  IF height > 1 /\ failed # {}
                  THEN [err |-> entries[first].err, store |-> store]
                ELSE IF PutError(record.blockId) # ""
                  THEN [err |-> PutError(record.blockId), store |-> store]
                ELSE [err |-> "",
                      store |-> Put(store, record.blockId, MarshalRecord(record))]

\* ---------------------------------------------------------- read endpoints
\* a response slot is <<>> (a nil item) or <<BlockItem>>
BlockItem(id, height, block, receipt) ==
    [blockId |-> id, blockHeight |-> height, block |-> block, receipt |-> receipt]

\* an item whose payloads are governed by the other flag
ItemOfRecordSwapped(id, record, returnBlock, returnReceipt) ==
    BlockItem(id, record.blockHeight,
              IF returnReceipt THEN record.block ELSE <<>>,
              IF returnBlock THEN record.receipt ELSE <<>>)

ItemOfRecord(id, record, returnBlock, returnReceipt) ==
    BlockItem(id, record.blockHeight,
              IF returnBlock THEN record.block ELSE <<>>,
              IF returnReceipt THEN record.receipt ELSE <<>>)

\* the getters of a (possibly nil) item
ItemBlockId(slot) == IF slot = <<>> THEN EmptyBytes ELSE slot[1].blockId

ItemBlockHeight(slot) == IF slot = <<>> THEN 0 ELSE slot[1].blockHeight

\* a step back that follows the farthest skip link instead of the parent link
StepBackFarthest(record) == record.previousBlockIds[Len(record.previousBlockIds)]

\* the id fillBlocks continues with: the height-minus-one link
StepBack(record) == record.previousBlockIds[1]

\* the slot index k that iteration i of fillBlocks writes
SlotIndex(numBlocks, i) == numBlocks - i - 1

\* a test that takes the last slot for one with slots after it
SlotsRemainAlways(numBlocks, i) == i < numBlocks

\* iteration i is not the last: more slots remain to be filled
SlotsRemain(numBlocks, i) == i + 1 < numBlocks

\* the outcome of one iteration of the loop of fillBlocks: the call ends
\* with result, or the loop goes on from lastID with blockItems
FillEnds(result) == [done |-> TRUE, result |-> result, lastID |-> NilBytes, blockItems |-> <<>>]

FillGoesOn(lastID, blockItems) ==
    [done |-> FALSE, result |-> Ok(<<>>), lastID |-> lastID, blockItems |-> blockItems]

\* iteration i of the loop of fillBlocks, with its one backend.Get;
\* blockItems[k + 1] is the slot of index k
FillStep(store, lastID, numBlocks, i, blockItems, returnBlock, returnReceipt) ==
    LET k   == SlotIndex(numBlocks, i)
        got == Get(store, lastID)
    IN  IF got.err # "" THEN FillEnds(Fail(got.err))
        ELSE IF Len(got.val[1]) = 0 THEN FillGoesOn(lastID, blockItems)
        ELSE IF UnmarshalError(got.val[1]) THEN FillEnds(Fail(ProtoParseError))
        ELSE
          LET record == UnmarshalRecord(got.val[1])
              filled == [blockItems EXCEPT ![k + 1] =
                            <<ItemOfRecord(lastID, record, returnBlock, returnReceipt)>>]
          IN  IF i > 0 /\ blockItems[k + 2] = <<>>
                THEN FillEnds(Fail(PanicNilDeref))
              ELSE IF i > 0 /\ record.blockHeight # WrapDec(blockItems[k + 2][1].blockHeight)
                THEN FillEnds(Fail("Unexpected height (corrupt block store?)"))
              ELSE IF Len(record.previousBlockIds) < 1
                THEN IF SlotsRemain(numBlocks, i)
                       THEN FillEnds(Fail("Attempt to traverse before genesis"))
                       ELSE FillGoesOn(lastID, filled)
              ELSE FillGoesOn(StepBack(record), filled)

\* iteration i of the loop of fillBlocks and the iterations after it
RECURSIVE FillLoop(_, _, _, _, _, _, _)
FillLoop(store, lastID, numBlocks, i, blockItems, returnBlock, returnReceipt) ==
    IF i >= numBlocks THEN Ok(blockItems)
    ELSE
      LET step == FillStep(store, lastID, numBlocks, i, blockItems,
                           returnBlock, returnReceipt)
      IN  IF step.done THEN step.result
          ELSE FillLoop(store, step.lastID, numBlocks, i + 1, step.blockItems,
                        returnBlock, returnReceipt)

fillBlocks(store, lastID, numBlocks, returnBlock, returnReceipt) ==
    FillLoop(store, lastID, numBlocks, 0, [j \in 1..numBlocks |-> <<>>],
             returnBlock, returnReceipt)

\* a height check that lets the height after the head through
StartAboveHeadOffByOne(ancestorStartHeight, headBlockHeight) ==
    ancestorStartHeight > headBlockHeight + 1

\* the start height lies above the head
StartAboveHead(ancestorStartHeight, headBlockHeight) ==
    ancestorStartHeight > headBlockHeight

\* a request for no blocks refused as an error
NoBlocksRefused(req) == Fail("num_blocks must be greater than 0")

\* the response to a request for no blocks: the empty response, no error
NoBlocks(req) == Ok(<<>>)

\* the response of GetBlocksByHeight from the items fillBlocks returned: the
\* first item is read for its height
HeightResponse(req, blockItems) ==
    IF Len(blockItems) > 0 /\ blockItems[1] = <<>> THEN Fail(PanicNilDeref)
    ELSE IF Len(blockItems) > 0 /\ blockItems[1][1].blockHeight # req.ancestorStartHeight
      THEN Fail("Unexpected height (corrupt block store?)")
    ELSE Ok(blockItems)

\* req is [headBlockId, ancestorStartHeight, numBlocks, returnBlock,
\* returnReceipt]; the result is [err, val], val holding the block items
GetBlocksByHeight(store, req) ==
    IF req.numBlocks <= 0 THEN NoBlocks(req)
    ELSE IF req.ancestorStartHeight = 0
      THEN Fail("ancestor_start_height must be greater than 0")
    ELSE IF req.headBlockId = NilBytes
      THEN Fail("expected field, 'head_block_id' was nil")
    ELSE
      LET head == getBlockHeight(store, req.headBlockId)
      IN  IF head.err # "" THEN Fail(head.err)
          ELSE IF StartAboveHead(req.ancestorStartHeight, head.val[1])
            THEN Fail("Block height mismatch")
          ELSE
            LET headBlockHeight == head.val[1]
                clamp     == req.ancestorStartHeight + (req.numBlocks - 1) > headBlockHeight
                endHeight == IF clamp THEN headBlockHeight
                             ELSE req.ancestorStartHeight + (req.numBlocks - 1)
                numBlocks == IF clamp THEN endHeight - req.ancestorStartHeight + 1
                             ELSE req.numBlocks
                anc       == getAncestorIDAtHeight(store, req.headBlockId, endHeight)
                blockID   == IF anc.err = "" THEN anc.val[1] ELSE NilBytes
                items     == fillBlocks(store, blockID, numBlocks,
                                        req.returnBlock, req.returnReceipt)
            IN  IF anc.err \notin {"", "Block height mismatch"} THEN Fail(anc.err)
                ELSE IF items.err # "" THEN Fail(items.err)
                ELSE HeightResponse(req, items.val[1])

\* the backend.Get calls of the loop of getAncestorIDAtHeight
RECURSIVE AncestorReads(_, _, _, _)
AncestorReads(store, blockID, height, expected) ==
    LET step == AncestorStep(store, blockID, height, expected)
    IN  IF step.done THEN 1
        ELSE 1 + AncestorReads(store, step.blockID, height, <<step.expected>>)

\* the backend.Get calls of the loop of fillBlocks from iteration i on;
\* above is the height of the item of slot k + 1, <<>> when it is not set
RECURSIVE FillReads(_, _, _, _, _)
FillReads(store, lastID, numBlocks, i, above) ==
    IF i >= numBlocks THEN 0
    ELSE
      LET got == Get(store, lastID)
      IN  IF got.err # "" THEN 1
          ELSE IF Len(got.val[1]) = 0
            THEN 1 + FillReads(store, lastID, numBlocks, i + 1, <<>>)
          ELSE IF UnmarshalError(got.val[1]) THEN 1
          ELSE
            LET record == UnmarshalRecord(got.val[1])
            IN  IF i > 0 /\ above = <<>> THEN 1
                ELSE IF i > 0 /\ record.blockHeight # WrapDec(above[1]) THEN 1
                ELSE IF Len(record.previousBlockIds) < 1
                  THEN IF SlotsRemain(numBlocks, i) THEN 1
                       ELSE 1 + FillReads(store, lastID, numBlocks, i + 1,
                                          <<record.blockHeight>>)
                ELSE 1 + FillReads(store, StepBack(record), numBlocks, i + 1,
                                   <<record.blockHeight>>)

\* a count for a handler that fetches the head before it looks at the
\* arguments
HeightReadsHeadFirst(store, req) == 1

\* the number of backend.Get calls GetBlocksByHeight makes for the request
HeightReads(store, req) ==
    IF req.numBlocks <= 0 \/ req.ancestorStartHeight = 0 \/ req.headBlockId = NilBytes
      THEN 0
    ELSE
      LET head == getBlockHeight(store, req.headBlockId)
      IN  IF head.err # "" \/ StartAboveHead(req.ancestorStartHeight, head.val[1])
            THEN 1
          ELSE
            LET clamp     == req.ancestorStartHeight + (req.numBlocks - 1) > head.val[1]
                endHeight == IF clamp THEN head.val[1]
                             ELSE req.ancestorStartHeight + (req.numBlocks - 1)
                anc       == getAncestorIDAtHeight(store, req.headBlockId, endHeight)
            IN  1 + AncestorReads(store, req.headBlockId, endHeight, <<>>)
                  + IF anc.err \notin {"", "Block height mismatch"} THEN 0
                    ELSE FillReads(store, IF anc.err = "" THEN anc.val[1] ELSE NilBytes,
                                   endHeight - req.ancestorStartHeight + 1, 0, <<>>)

\* a slot that carries the requested id instead of the record's
SlotByIDEcho(store, id, returnBlock, returnReceipt) ==
    LET got == Get(store, id)
    IN  IF got.err # "" THEN <<>>
        ELSE IF UnmarshalError(got.val[1]) THEN <<>>
        ELSE LET record == UnmarshalRecord(got.val[1])
             IN  <<ItemOfRecord(id, record, returnBlock, returnReceipt)>>

\* the slot of GetBlocksByID for one requested id
SlotByID(store, id, returnBlock, returnReceipt) ==
    LET got == Get(store, id)
    IN  IF got.err # "" THEN <<>>
        ELSE IF UnmarshalError(got.val[1]) THEN <<>>
        ELSE LET record == UnmarshalRecord(got.val[1])
             IN  <<ItemOfRecord(record.blockId, record, returnBlock, returnReceipt)>>

\* req is [blockIds, returnBlock, returnReceipt]; blockIds is <<>> (nil)
\* or <<list>>
GetBlocksByID(store, req) ==
    IF req.blockIds = <<>> THEN Fail("expected field 'block_id' was nil")
    ELSE
      LET ids == req.blockIds[1]
      IN  IF \E i \in 1..Len(ids) : ids[i] = NilBytes
            THEN Fail("member of field 'block_id' was nil")
          ELSE Ok([i \in 1..Len(ids) |->
                     SlotByID(store, ids[i], req.returnBlock, req.returnReceipt)])

\* ----------------------------------------------------- highest-block tracker
\* a read that decodes whatever the Get returned, bytes or none
GetHighestBlockUnchecked(store) ==
    Ok(UnmarshalTopology(Get(store, HighestBlockKey).val[1]))

GetHighestBlock(store) ==
    LET got == Get(store, HighestBlockKey)
    IN  IF got.err # "" THEN Fail(got.err)
        ELSE IF Len(got.val[1]) = 0 THEN Fail("Unexpected height (corrupt block store?)")
        ELSE Ok(UnmarshalTopology(got.val[1]))

\* a decision that overwrites whatever is stored
ShouldWriteAlways(got, topology) == TRUE

\* a decision with the comparison the other way round
ShouldWriteReversed(got, topology) ==
    IF got.err = "" /\ Len(got.val[1]) > 0
      THEN ~(UnmarshalTopology(got.val[1]).height <= topology.height)
      ELSE TRUE

\* a decision that also overwrites a stored topology of the same height
ShouldWriteOnEqual(got, topology) ==
    IF got.err = "" /\ Len(got.val[1]) > 0
      THEN ~(UnmarshalTopology(got.val[1]).height > topology.height)
      ELSE TRUE

\* the decision of UpdateHighestBlock on the value it read: TRUE when the
\* new topology is to be written
ShouldWrite(got, topology) ==
    IF got.err = "" /\ Len(got.val[1]) > 0
      THEN ~(UnmarshalTopology(got.val[1]).height >= topology.height)
      ELSE TRUE

\* an update that treats bytes it cannot decode like an absent value
UpdateAfterGetLenient(store, got, topology) ==
    IF got.err = "" /\ Len(got.val[1]) > 0 /\ ~UnmarshalError(got.val[1])
       /\ UnmarshalTopology(got.val[1]).height >= topology.height
      THEN [err |-> "", store |-> store]
      ELSE [err |-> "", store |-> Put(store, HighestBlockKey, MarshalTopology(topology))]

\* UpdateHighestBlock from the value got that its Get returned, on the
\* store as it is when the Put runs: [err, store]
UpdateAfterGet(store, got, topology) ==
    IF got.err = "" /\ Len(got.val[1]) > 0 /\ UnmarshalError(got.val[1])
      THEN [err |-> "Current highest block corrupted", store |-> store]
    ELSE IF ShouldWrite(got, topology)
      THEN [err |-> "", store |-> Put(store, HighestBlockKey, MarshalTopology(topology))]
      ELSE [err |-> "", store |-> store]

\* the call goes as far as its Put: the stored bytes decoded, if there were
\* any, and the comparison did not end the call
ReachesPut(got, topology) ==
    /\ ~(got.err = "" /\ Len(got.val[1]) > 0 /\ UnmarshalError(got.val[1]))
    /\ ShouldWrite(got, topology)

\* the result of UpdateHighestBlock run without interruption: [err, store]
UpdateHighestBlockResult(store, topology) ==
    UpdateAfterGet(store, Get(store, HighestBlockKey), topology)

\* -------------------------------------------------------------- dispatcher
\* A request is <<>> (a nil pointer) or <<[variant, body]>>; the variant
\* "unset" is a request whose oneof field is nil.  A response is
\* [variant, message, val].
ErrorResponse(message) == [variant |-> "error", message |-> message, val |-> <<>>]

TypedResponse(variant, val) == [variant |-> variant, message |-> "", val |-> val]

NoResponse == [variant |-> "none", message |-> "", val |-> <<>>]

\* the type switch of HandleRequest on a request whose oneof field is set:
\* [err, val, store]
ReadOutcome(result, store) ==
    [err |-> result.err, val |-> result.val, store |-> store]

WriteOutcome(result) ==
    [err |-> result.err, val |-> <<>>, store |-> result.store]

RequestSwitch(store, request) ==
    CASE request.variant = "get_blocks_by_id" ->
           ReadOutcome(GetBlocksByID(store, request.body), store)
      [] request.variant = "get_blocks_by_height" ->
           ReadOutcome(GetBlocksByHeight(store, request.body), store)
      [] request.variant = "add_block" ->
           WriteOutcome(AddBlockResult(store, request.body.blockToAdd,
                                       request.body.receiptToAdd))
      [] request.variant = "get_highest_block" ->
           ReadOutcome(GetHighestBlock(store), store)
      [] OTHER -> [err |-> "Unknown request", val |-> <<>>, store |-> store]

\* the end of HandleRequest: the response made of the error or the value
ResponseOf(variant, done) ==
    IF done.err = PanicNilDeref
      THEN [panic |-> TRUE, response |-> NoResponse, store |-> done.store]
    ELSE IF done.err # ""
      THEN [panic |-> FALSE, response |-> ErrorResponse(done.err),
            store |-> done.store]
    ELSE [panic |-> FALSE, response |-> TypedResponse(variant, done.val),
          store |-> done.store]

\* HandleRequest: [panic, response, store]; a nil req is dereferenced
\* (req.Request), and a panic of the operation is not recovered
HandleRequest(store, req) ==
    IF req = <<>>
      THEN [panic |-> TRUE, response |-> NoResponse, store |-> store]
    ELSE ResponseOf(req[1].variant,
                    IF req[1].variant = "unset"
                      THEN [err |-> "expected request was nil", val |-> <<>>,
                            store |-> store]
                      ELSE RequestSwitch(store, req[1]))

\* --------------------------------------------------------------- RPC shell
MaxMessageSize == 536870912

\* the number of bytes of the base-128 varint of n
RECURSIVE VarintLen(_)
VarintLen(n) == IF n < 128 THEN 1 ELSE 1 + VarintLen(n \div 128)

\* the wire size of a length-delimited field of n bytes: tag, length, bytes
FieldSize(n) == 1 + VarintLen(n) + n

RECURSIVE SumSizes(_)
SumSizes(sizes) ==
    IF sizes = <<>> THEN 0 ELSE FieldSize(sizes[1]) + SumSizes(Tail(sizes))

\* len(proto.Marshal(resp)): the response message is one oneof field; an
\* Error holds its message text, a typed response one field per item, val
\* giving the encoded size of each item
EncodedSize(resp) ==
    IF resp.variant = "none" THEN 0
    ELSE IF resp.variant = "error" THEN FieldSize(FieldSize(Len(resp.message)))
    ELSE FieldSize(SumSizes(resp.val))

TooLarge == ErrorResponse("Response would exceed maximum MQ message size")

\* a shell that also replaces a reply of exactly the greatest size
RpcReplyStrict(resp) ==
    IF EncodedSize(resp) >= MaxMessageSize
      THEN [response |-> TooLarge, len |-> EncodedSize(TooLarge)]
      ELSE [response |-> resp, len |-> EncodedSize(resp)]

\* the reply of the RPC handler for the response resp of the dispatcher:
\* the message sent and the number of its bytes
RpcReply(resp) ==
    IF EncodedSize(resp) > MaxMessageSize
      THEN [response |-> TooLarge, len |-> EncodedSize(TooLarge)]
      ELSE [response |-> resp, len |-> EncodedSize(resp)]

\* ------------------------------------------------------------------- state
VARIABLES
    storage,    \* MapBackend.storage: key -> stored bytes
    last,       \* the call being answered: operation, request and result
    offered,    \* history: the heights offered to UpdateHighestBlock so far
    callers,    \* the concurrent calls in flight, one per caller
    ncalls,     \* the number of UpdateHighestBlock calls started by the callers
    quiescent,  \* history: what was stored when no concurrent call was in flight
    batch,      \* history: the topologies, blocks or transactions taken since then
    written,    \* history: the topology of the latest Put under HighestBlockKey
    backend,    \* the type of the backend: "map" or "badger"
    history     \* history: the backend operations that changed the store

vars == <<storage, last, offered, callers, ncalls, quiescent, batch, written,
          backend, history>>

Idle == [pc |-> "idle"]

Init ==
    /\ storage = <<>>
    /\ last = [op |-> "none"]
    /\ offered = {}
    /\ callers = [p \in 1..NumCallers |-> Idle]
    /\ ncalls = 0
    /\ quiescent = <<>>
    /\ batch = {}
    /\ written = <<>>
    /\ backend = "map"
    /\ history = <<>>

\* the handler takes the next request when the response to the one before
\* has been sent
Ready == last.op = "none"

\* the response of the call is handed back to the requester
Respond ==
    /\ ~Ready
    /\ last' = [op |-> "none"]
    /\ UNCHANGED <<storage, offered, callers, ncalls, quiescent, batch, written, backend, history>>

Stored(store, id) == Get(store, id).err = "" /\ Len(Get(store, id).val[1]) > 0

RecordOf(store, id) == UnmarshalRecord(store[id])

Block(id, previous, height) ==
    [id |-> id, header |-> <<[previous |-> previous, height |-> height]>>]

\* ---------------------------------------------------------------- fork tree
\* AddBlock of a block that extends the tree: a genesis block at height 1,
\* or a child of a stored block at the next height.  Identifiers are opaque,
\* so the k-th block of the tree is given the k-th identifier.
TreeBlocks(store, ids) ==
    LET id == IdBase + Cardinality(DOMAIN store) + 1
    IN  IF id \notin ids THEN {}
        ELSE {Block(id, ZeroBlockID, 1)}
             \cup {Block(id, p, RecordOf(store, p).blockHeight + 1) :
                     p \in {q \in DOMAIN store : RecordOf(store, q).blockHeight < MaxHeight}}

\* the store holds this very block with this very receipt
AlreadyAdded(store, blockToAdd, receiptToAdd) ==
    /\ blockToAdd # <<>>
    /\ blockToAdd[1].id \in DOMAIN store
    /\ RecordOf(store, blockToAdd[1].id).block = blockToAdd
    /\ RecordOf(store, blockToAdd[1].id).receipt = receiptToAdd

AddBlock(blockToAdd, receiptToAdd) ==
    LET result == AddBlockResult(storage, blockToAdd, receiptToAdd)
    IN  /\ Ready
        /\ storage' = result.store
        /\ last' = [op |-> "AddBlock", block |-> blockToAdd,
                    receipt |-> receiptToAdd, err |-> result.err,
                    readd |-> AlreadyAdded(storage, blockToAdd, receiptToAdd)]
        /\ UNCHANGED <<offered, callers, ncalls, quiescent, batch, written, backend, history>>

AddTreeBlock ==
    \E block \in TreeBlocks(storage, TreeIds) :
        AddBlock(<<block>>, <<>>)

HeightRequests(heads) ==
    [ headBlockId : heads, ancestorStartHeight : 0..(MaxHeight + 1),
      numBlocks : 0..MaxNumBlocks, returnBlock : BOOLEAN, returnReceipt : BOOLEAN ]

DoGetBlocksByHeight(req) ==
    LET result == GetBlocksByHeight(storage, req)
    IN  /\ Ready
        /\ last' = [op |-> "GetBlocksByHeight", req |-> req,
                    err |-> result.err, val |-> result.val,
                    reads |-> HeightReads(storage, req)]
        /\ UNCHANGED <<storage, offered, callers, ncalls, quiescent, batch, written, backend, history>>

QueryTree ==
    \E req \in HeightRequests(TreeIds) :
        /\ req.ancestorStartHeight >= 1
        /\ req.returnBlock = FALSE /\ req.returnReceipt = FALSE
        /\ DoGetBlocksByHeight(req)

NextTree == AddTreeBlock \/ QueryTree \/ Respond

SpecTree == Init /\ [][NextTree]_vars

\* ------------------------------------------------------- handler requests
\* AddBlock of the next block of a tree, with or without a receipt
AddNewBlock ==
    \E block \in TreeBlocks(storage, Ids), receipt \in Receipts :
        AddBlock(<<block>>, receipt)

\* AddBlock of a block that is in the store, with its content and receipt
ReAddBlock ==
    \E id \in DOMAIN storage :
        AddBlock(RecordOf(storage, id).block, RecordOf(storage, id).receipt)

\* AddBlock without a block, or with a block without a header
AddMalformedBlock ==
    \E blockToAdd \in {<<>>, <<[id |-> IdBase + 1, header |-> <<>>]>>} :
        AddBlock(blockToAdd, <<>>)

\* the sequences of length at most n over the set S
SeqsUpTo(S, n) == UNION {[1..m -> S] : m \in 0..n}

IDRequests(ids) ==
    [ blockIds : {<<list>> : list \in SeqsUpTo(ids, MaxReqIds)},
      returnBlock : BOOLEAN, returnReceipt : BOOLEAN ]
    \cup {[blockIds |-> <<>>, returnBlock |-> FALSE, returnReceipt |-> FALSE]}

DoGetBlocksByID(req) ==
    LET result == GetBlocksByID(storage, req)
    IN  /\ Ready
        /\ last' = [op |-> "GetBlocksByID", req |-> req,
                    err |-> result.err, val |-> result.val]
        /\ UNCHANGED <<storage, offered, callers, ncalls, quiescent, batch, written, backend, history>>

QueryByID == \E req \in IDRequests(Ids) : DoGetBlocksByID(req)

Next == AddNewBlock \/ ReAddBlock \/ AddMalformedBlock \/ QueryByID \/ Respond

Spec == Init /\ [][Next]_vars

\* ------------------------------------------------- highest-block requests
TopIds == {EmptyBytes} \cup Ids

Topologies == [id : TopIds, previous : {EmptyBytes, ZeroBlockID}, height : Heights]

DoUpdateHighestBlock(topology) ==
    LET result == UpdateHighestBlockResult(storage, topology)
    IN  /\ Ready
        /\ storage' = result.store
        /\ last' = [op |-> "UpdateHighestBlock", req |-> topology,
                    got |-> Get(storage, HighestBlockKey), err |-> result.err]
        /\ offered' = offered \cup {topology.height}
        /\ written' = IF ReachesPut(Get(storage, HighestBlockKey), topology)
                        THEN <<topology>> ELSE written
        /\ UNCHANGED <<callers, ncalls, quiescent, batch, backend, history>>

OfferTopology == \E topology \in Topologies : DoUpdateHighestBlock(topology)

DoGetHighestBlock ==
    LET result == GetHighestBlock(storage)
    IN  /\ Ready
        /\ last' = [op |-> "GetHighestBlock", err |-> result.err, val |-> result.val]
        /\ UNCHANGED <<storage, offered, callers, ncalls, quiescent, batch, written, backend, history>>

NextHighest == OfferTopology \/ DoGetHighestBlock \/ Respond

SpecHighest == Init /\ [][NextHighest]_vars

\* ------------------------------------------------- requests by dispatcher
DispatchIds == (IdBase + 1)..(IdBase + NumDispatchIds)

\* the blocks offered to the dispatcher: the next block of a tree, a block
\* whose declared parent is not stored, a block without a header
BlockRecords(store) == [k \in DOMAIN store \ {HighestBlockKey} |-> store[k]]

DispatchBlocks(store) ==
    LET id == IdBase + Cardinality(DOMAIN BlockRecords(store)) + 1
    IN  IF id \notin DispatchIds THEN {}
        ELSE TreeBlocks(BlockRecords(store), DispatchIds)
             \cup {Block(id, ZeroBlockID, h) : h \in Heights}
             \cup {[id |-> id, header |-> <<>>]}

Request(variant, body) == <<[variant |-> variant, body |-> body]>>

AddBlockRequests(store) ==
    {Request("add_block", [blockToAdd |-> <<block>>, receiptToAdd |-> <<>>]) :
        block \in DispatchBlocks(store)}
    \cup {Request("add_block", [blockToAdd |-> <<>>, receiptToAdd |-> <<>>])}

ReadRequests ==
    {Request("get_blocks_by_id", body) :
        body \in [blockIds : {<<>>} \cup {<<<<id>>>> : id \in DispatchIds},
                  returnBlock : {TRUE}, returnReceipt : {TRUE}]}
    \cup {Request("get_blocks_by_height", body) :
            body \in [headBlockId : DispatchIds, ancestorStartHeight : Heights,
                      numBlocks : 0..MaxNumBlocks,
                      returnBlock : {FALSE}, returnReceipt : {FALSE}]}
    \cup {Request("get_highest_block", <<>>)}

OtherRequests == {<<>>, Request("unset", <<>>), Request("reserved", <<>>)}

\* the handler has run on the request with the result [panic, response, store]
Handled(req, result) ==
    /\ Ready
    /\ storage' = result.store
    /\ last' = [op |-> "HandleRequest", req |-> req, panic |-> result.panic,
                response |-> result.response]
    /\ UNCHANGED <<offered, callers, ncalls, quiescent, batch, written, backend, history>>

DoHandleRequest(req) == Handled(req, HandleRequest(storage, req))

DispatchAddBlock == \E req \in AddBlockRequests(storage) : DoHandleRequest(req)

DispatchRead == \E req \in ReadRequests : DoHandleRequest(req)

DispatchOther == \E req \in OtherRequests : DoHandleRequest(req)

\* at startup a store without a highest block is given the topology of
\* height 0 with the zero multihash as id
StartupTopology == [id |-> ZeroBlockID, previous |-> EmptyBytes, height |-> 0]

Startup ==
    /\ GetHighestBlock(storage).err = "Unexpected height (corrupt block store?)"
    /\ DoUpdateHighestBlock(StartupTopology)

NextDispatch == Startup \/ DispatchAddBlock \/ DispatchRead \/ DispatchOther \/ Respond

SpecDispatch == Init /\ [][NextDispatch]_vars

\* ------------------------------------------------------ replies of the shell
\* encoded sizes of a block item: small ones, the sizes at which the length
\* prefix grows, half the greatest message size, and the sizes at which a
\* single item fills the message exactly and exceeds it by one byte
ItemSizes ==
    {0, 1, 127, 128, MaxMessageSize \div 2,
     MaxMessageSize - 12, MaxMessageSize - 11}

\* the responses the dispatcher hands to the shell
ShellResponses ==
    {TypedResponse(variant, sizes) :
        variant \in {"get_blocks_by_id", "get_blocks_by_height"},
        sizes \in SeqsUpTo(ItemSizes, MaxNumBlocks)}
    \cup {TypedResponse("add_block", <<>>), TypedResponse("get_highest_block", <<1>>)}
    \cup {ErrorResponse(message) :
            message \in {"Unknown request", "Block height mismatch",
                         "Cannot add empty optional block", ProtoParseError}}

DoRpcReply(resp) ==
    /\ Ready
    /\ last' = [op |-> "RPC", response |-> resp, reply |-> RpcReply(resp)]
    /\ UNCHANGED <<storage, offered, callers, ncalls, quiescent, batch, written, backend, history>>

ShellReplies == \E resp \in ShellResponses : DoRpcReply(resp)

NextShell == ShellReplies \/ Respond

SpecShell == Init /\ [][NextShell]_vars

\* ------------------------------------- the highest block on a faulty store
\* the error of a backend read that fails (BadgerBackend.Get hands back the
\* error of its transaction)
ReadError == "backend read failed"

\* bytes under the reserved key that are no encoded topology
CorruptBytes == << <<"malformed", 0>> >>

\* UpdateHighestBlock while the read of the backend fails
DoUpdateHighestBlockReadFails(topology) ==
    LET result == UpdateAfterGet(storage, Fail(ReadError), topology)
    IN  /\ Ready
        /\ storage' = result.store
        /\ last' = [op |-> "UpdateHighestBlock", req |-> topology,
                    got |-> Fail(ReadError), err |-> result.err]
        /\ offered' = offered \cup {topology.height}
        /\ written' = IF ReachesPut(Fail(ReadError), topology)
                        THEN <<topology>> ELSE written
        /\ UNCHANGED <<callers, ncalls, quiescent, batch, backend, history>>

OfferWhileReadFails == \E topology \in Topologies : DoUpdateHighestBlockReadFails(topology)

\* the value under the reserved key is damaged outside the handler
CorruptHighest ==
    /\ Ready
    /\ storage' = Put(storage, HighestBlockKey, CorruptBytes)
    /\ UNCHANGED <<last, offered, callers, ncalls, quiescent, batch, written, backend, history>>

NextFaulty ==
    OfferTopology \/ OfferWhileReadFails \/ CorruptHighest \/ DoGetHighestBlock \/ Respond

SpecFaulty == Init /\ [][NextFaulty]_vars

\* ------------------------------------------------ operations of a backend
BackendTypes == {"map", "badger"}

\* the keys handed to the backend: nil, empty and two keys of one byte
BackendKeys == {NilBytes, EmptyBytes, 1, 2}

ValidKeys == BackendKeys \ {NilBytes, EmptyBytes}

\* the values handed to the backend; the nil value is told by a flag
BackendValues == {<<>>, <<1>>, <<2>>}

\* NewBackend: an empty backend of either type
InitBackend ==
    /\ storage = <<>>
    /\ last = [op |-> "none"]
    /\ offered = {}
    /\ callers = [p \in 1..NumCallers |-> Idle]
    /\ ncalls = 0
    /\ quiescent = <<>>
    /\ batch = {}
    /\ written = <<>>
    /\ backend \in BackendTypes
    /\ history = <<>>

Logged(op, key, value) == [op |-> op, key |-> key, value |-> value]

DoPut(key, valueIsNil, value) ==
    LET result == BackendPut(backend, storage, key, valueIsNil, value) IN
        /\ Ready
        /\ Len(history) < MaxOps
        /\ storage' = result.store
        /\ history' = IF result.err = "" THEN Append(history, Logged("put", key, value))
                       ELSE history
        /\ last' = [op |-> "Put", key |-> key, valueIsNil |-> valueIsNil,
                    err |-> result.err]
        /\ UNCHANGED <<offered, callers, ncalls, quiescent, batch, written, backend>>

DoDelete(key) ==
    LET result == BackendDelete(backend, storage, key) IN
        /\ Ready
        /\ Len(history) < MaxOps
        /\ storage' = result.store
        /\ history' = IF result.err = "" THEN Append(history, Logged("delete", key, <<>>))
                       ELSE history
        /\ last' = [op |-> "Delete", key |-> key, err |-> result.err]
        /\ UNCHANGED <<offered, callers, ncalls, quiescent, batch, written, backend>>

DoReset ==
    LET result == BackendReset(backend, storage) IN
        /\ Ready
        /\ Len(history) < MaxOps
        /\ storage' = result.store
        /\ history' = Append(history, Logged("reset", NilBytes, <<>>))
        /\ last' = [op |-> "Reset", err |-> result.err]
        /\ UNCHANGED <<offered, callers, ncalls, quiescent, batch, written, backend>>

DoGet(key) ==
    LET result == BackendGet(backend, storage, key) IN
        /\ Ready
        /\ last' = [op |-> "Get", key |-> key, err |-> result.err, val |-> result.val]
        /\ UNCHANGED <<storage, offered, callers, ncalls, quiescent, batch, written, backend, history>>

PutValue == \E key \in BackendKeys, value \in BackendValues : DoPut(key, FALSE, value)

PutNilValue == \E key \in BackendKeys : DoPut(key, TRUE, <<>>)

DeleteKey == \E key \in BackendKeys : DoDelete(key)

GetKey == \E key \in BackendKeys : DoGet(key)

NextBackend == PutValue \/ PutNilValue \/ DeleteKey \/ DoReset \/ GetKey \/ Respond

SpecBackend == InitBackend /\ [][NextBackend]_vars

\* --------------------------------------- concurrent UpdateHighestBlock calls
\* Each caller runs UpdateHighestBlock as two backend accesses: the Get,
\* then (after the comparison on the value it got) the Put.
\* caller p offers the topologies of its own block, at any height
CallerTopologies(p) ==
    [id : {IdBase + p}, previous : {ZeroBlockID}, height : 1..MaxHeight]

AllIdle == \A p \in 1..NumCallers : callers[p] = Idle

HighestBytes(store) == Get(store, HighestBlockKey).val[1]

CallerGet(p, topology) ==
    /\ callers[p] = Idle
    /\ ncalls < MaxCalls
    /\ callers' = [callers EXCEPT ![p] =
                     [pc |-> "put", topology |-> topology,
                      got |-> Get(storage, HighestBlockKey)]]
    /\ ncalls' = ncalls + 1
    /\ quiescent' = IF AllIdle THEN HighestBytes(storage) ELSE quiescent
    /\ batch' = IF AllIdle THEN {topology} ELSE batch \cup {topology}
    /\ UNCHANGED <<storage, last, offered, written, backend, history>>

CallerPut(p) ==
    /\ callers[p] # Idle
    /\ LET result == UpdateAfterGet(storage, callers[p].got, callers[p].topology)
       IN  storage' = result.store
    /\ written' = IF ReachesPut(callers[p].got, callers[p].topology)
                    THEN <<callers[p].topology>> ELSE written
    /\ callers' = [callers EXCEPT ![p] = Idle]
    /\ UNCHANGED <<last, offered, ncalls, quiescent, batch, backend, history>>

CallerStarts ==
    \E p \in 1..NumCallers : \E topology \in CallerTopologies(p) : CallerGet(p, topology)

CallerFinishes == \E p \in 1..NumCallers : CallerPut(p)

NextConcurrent == CallerStarts \/ CallerFinishes

SpecConcurrent == Init /\ [][NextConcurrent]_vars

\* --------------------------------------------- blocks and the reserved key
\* AddBlock takes the identifier of the block as it comes: the next block of
\* a tree, or a block whose identifier is the one byte of highestBlockKey
KeyspaceBlocks(store) ==
    TreeBlocks(BlockRecords(store), Ids)
    \cup {Block(HighestBlockKey, ZeroBlockID, 1)}

AddKeyspaceBlock ==
    \E block \in KeyspaceBlocks(storage) : AddBlock(<<block>>, <<>>)

\* UpdateHighestBlock with the topology of a block at one of the first heights
KeyspaceTopologies == [id : Ids, previous : {ZeroBlockID}, height : 1..2]

OfferKeyspaceTopology ==
    \E topology \in KeyspaceTopologies : DoUpdateHighestBlock(topology)

NextKeyspace ==
    AddKeyspaceBlock \/ OfferKeyspaceTopology \/ DoGetHighestBlock \/ Respond

SpecKeyspace == Init /\ [][NextKeyspace]_vars

\* ------------------------------------------------- concurrent AddBlock calls
\* Each writer runs AddBlock as its backend accesses, one at a time: the
\* Gets of getAncestorIDAtHeight for each entry of the skip list, then the
\* Put.  Between the accesses of one writer the other may run.
Writers == 1..2

\* AddBlock at the head of its loop over previousHeights, at the first index
AtLoop(block, receipt) ==
    [pc |-> "loop", block |-> block, receipt |-> receipt, i |-> 1,
     prevIds |-> <<>>, blockID |-> EmptyBytes, expected |-> <<>>, err |-> "",
     gets |-> 0, crossed |-> FALSE]

\* a writer that takes the parent for every entry of the skip list
RECURSIVE AdvanceWithoutWalk(_)
AdvanceWithoutWalk(w) ==
    LET height == GetHeaderHeight(w.block)
        ph     == getPreviousHeights(height)
    IN  IF height <= 1
          THEN [w EXCEPT !.pc = "put", !.prevIds = <<GetHeaderPrevious(w.block)>>]
        ELSE IF w.i > Len(ph) THEN [w EXCEPT !.pc = "put"]
        ELSE AdvanceWithoutWalk([w EXCEPT !.i = w.i + 1,
                           !.prevIds = Append(w.prevIds, GetHeaderPrevious(w.block))])

\* AddBlock from the head of its loop up to its next backend access: the
\* first Get of getAncestorIDAtHeight for an entry, or the Put
RECURSIVE Advance(_)
Advance(w) ==
    LET height == GetHeaderHeight(w.block)
        ph     == getPreviousHeights(height)
    IN  IF height <= 1
          THEN [w EXCEPT !.pc = "put", !.prevIds = <<GetHeaderPrevious(w.block)>>]
        ELSE IF w.i > Len(ph) THEN [w EXCEPT !.pc = "put"]
        ELSE IF ph[w.i] >= height
          THEN [w EXCEPT !.pc = "done", !.err = "Internal constraint was violated"]
        ELSE IF ph[w.i] = height - 1
          THEN Advance([w EXCEPT !.i = w.i + 1,
                           !.prevIds = Append(w.prevIds, GetHeaderPrevious(w.block))])
        ELSE [w EXCEPT !.pc = "walk", !.blockID = GetHeaderPrevious(w.block),
                       !.expected = <<>>]

\* the record AddBlock has built when it reaches the Put
WriterRecord(w) ==
    [ blockId          |-> w.block.id,
      blockHeight      |-> GetHeaderHeight(w.block),
      previousBlockIds |-> w.prevIds,
      block            |-> <<w.block>>,
      receipt          |-> w.receipt ]

\* the next backend access of a writer and what follows it up to the access
\* after: [writer, store]
WriterStep(store, w) ==
    IF w.pc = "walk"
      THEN LET h    == getPreviousHeights(GetHeaderHeight(w.block))[w.i]
               step == AncestorStep(store, w.blockID, h, w.expected)
               read == [w EXCEPT !.gets = w.gets + 1]
           IN  [ store  |-> store,
                 writer |->
                   IF ~step.done
                     THEN [read EXCEPT !.blockID = step.blockID,
                                       !.expected = <<step.expected>>]
                   ELSE IF step.result.err # ""
                     THEN [read EXCEPT !.pc = "done", !.err = step.result.err]
                   ELSE Advance([read EXCEPT !.pc = "loop", !.i = w.i + 1,
                           !.prevIds = Append(w.prevIds, step.result.val[1])]) ]
    ELSE IF PutError(w.block.id) # ""
      THEN [ store  |-> store,
             writer |-> [w EXCEPT !.pc = "done", !.err = PutError(w.block.id)] ]
    ELSE [ store  |-> Put(store, w.block.id, MarshalRecord(WriterRecord(w))),
           writer |-> [w EXCEPT !.pc = "done"] ]

NoWriter == \A p \in Writers : callers[p] = Idle

\* the blocks writer p may add over the store: a block of its own, genesis
\* or child of a stored block, or a stored block over again
WriterBlocks(store, p) ==
    LET id == IdBase + Cardinality(DOMAIN store) + p
    IN  {Block(id, ZeroBlockID, 1)}
        \cup {Block(id, q, RecordOf(store, q).blockHeight + 1) :
                q \in {r \in DOMAIN store : RecordOf(store, r).blockHeight < MaxHeight}}
        \cup {RecordOf(store, q).block[1] : q \in DOMAIN store}

\* AddBlock of a block that extends the tree, while no writer has started
GrowStore ==
    /\ NoWriter
    /\ \E block \in TreeBlocks(storage, Ids) : AddBlock(<<block>>, <<>>)

WriterStarts(p, block) ==
    /\ Ready
    /\ callers[p] = Idle
    /\ \A other \in batch : other.id # block.id
    /\ callers' = [callers EXCEPT ![p] = Advance(AtLoop(block, <<>>))]
    /\ quiescent' = IF NoWriter THEN storage ELSE quiescent
    /\ batch' = batch \cup {block}
    /\ UNCHANGED <<storage, last, offered, ncalls, written, backend, history>>

\* writer q has read the store and not yet put when another writer puts
Crossed(q, result) ==
    /\ callers[q].pc \in {"walk", "put"}
    /\ callers[q].gets > 0
    /\ result.store # storage

WriterAccesses(p) ==
    /\ callers[p].pc \in {"walk", "put"}
    /\ LET result == WriterStep(storage, callers[p])
       IN  /\ storage' = result.store
           /\ callers' = [q \in DOMAIN callers |->
                            IF q = p THEN result.writer
                            ELSE IF q \in Writers /\ Crossed(q, result)
                              THEN [callers[q] EXCEPT !.crossed = TRUE]
                            ELSE callers[q]]
    /\ UNCHANGED <<last, offered, ncalls, quiescent, batch, written, backend, history>>

WriterBegins ==
    \E p \in Writers :
        \E block \in WriterBlocks(IF NoWriter THEN storage ELSE quiescent, p) :
            WriterStarts(p, block)

WriterRuns == \E p \in Writers : WriterAccesses(p)

NextWriters == GrowStore \/ WriterBegins \/ WriterRuns \/ Respond

SpecWriters == Init /\ [][NextWriters]_vars

\* ------------------------------------------------ block-accepted broadcasts
\* the handler of the koinos.block.accept topic on a broadcast that parsed:
\* the block and receipt go to HandleRequest as an AddBlock request, and the
\* response is dropped
AcceptedRequest(sub) ==
    Request("add_block", [blockToAdd |-> sub.block, receiptToAdd |-> sub.receipt])

\* the broadcasts: the next block of a tree, with or without a receipt
AcceptedBlocks(store) ==
    {[block |-> <<block>>, receipt |-> receipt] :
        block \in TreeBlocks(BlockRecords(store), TreeIds), receipt \in Receipts}

Accepted(sub, result) ==
    /\ Ready
    /\ GetHighestBlock(storage).err = ""
    /\ storage' = result.store
    /\ last' = [op |-> "BlockAccepted", block |-> sub.block, parsed |-> TRUE,
                panic |-> result.panic]
    /\ UNCHANGED <<offered, callers, ncalls, quiescent, batch, written, backend, history>>

BlockAccepted ==
    \E sub \in AcceptedBlocks(storage) :
        Accepted(sub, HandleRequest(storage, AcceptedRequest(sub)))

\* a broadcast that does not parse is logged and dropped
MalformedBroadcast ==
    /\ Ready
    /\ GetHighestBlock(storage).err = ""
    /\ last' = [op |-> "BlockAccepted", block |-> <<>>, parsed |-> FALSE,
                panic |-> FALSE]
    /\ UNCHANGED <<storage, offered, callers, ncalls, quiescent, batch, written, backend, history>>

NextBroadcast ==
    Startup \/ BlockAccepted \/ MalformedBroadcast \/ DoGetHighestBlock \/ Respond

SpecBroadcast == Init /\ [][NextBroadcast]_vars

\* ------------------------------------------------- skip-list function calls
\* the heights given to getPreviousHeights and getPreviousHeightIndex: the
\* first heights and two large powers of two
MathHeights == 0..MaxMathHeight \cup {2^16, 2^20}

DoGetPreviousHeights(x) ==
    /\ Ready
    /\ last' = [op |-> "getPreviousHeights", x |-> x, val |-> getPreviousHeights(x)]
    /\ UNCHANGED <<storage, offered, callers, ncalls, quiescent, batch, written, backend, history>>

PreviousHeightIndexed(goal, current, result) ==
    /\ Ready
    /\ last' = [op |-> "getPreviousHeightIndex", goal |-> goal, current |-> current,
                err |-> result.err, val |-> result.val]
    /\ UNCHANGED <<storage, offered, callers, ncalls, quiescent, batch, written, backend, history>>

CallPreviousHeights == \E x \in MathHeights : DoGetPreviousHeights(x)

CallPreviousHeightIndex ==
    \E goal \in MathHeights, current \in MathHeights :
        PreviousHeightIndexed(goal, current, getPreviousHeightIndex(goal, current))

NextMath == CallPreviousHeights \/ CallPreviousHeightIndex \/ Respond

SpecMath == Init /\ [][NextMath]_vars

\* ------------------------------------------------ blocks of height 0 and 1
\* AddBlock of a block of height 0 or 1 under the next identifier, its
\* declared previous unset, the zero multihash or a stored block
LowBlocks(store) ==
    LET id == IdBase + Cardinality(DOMAIN store) + 1
    IN  IF id \notin Ids THEN {}
        ELSE {Block(id, previous, h) :
                previous \in {NilBytes, ZeroBlockID} \cup DOMAIN store, h \in 0..1}

AddLowBlock ==
    \E block \in LowBlocks(storage), receipt \in Receipts :
        AddBlock(<<block>>, receipt)

NextLow == AddLowBlock \/ AddNewBlock \/ Respond

SpecLow == Init /\ [][NextLow]_vars

\* ------------------------------------------- ancestor walks, any store content
\* The store holds any records under two identifiers: any height, and any
\* links, at most two in the record the walks start at and at most one in
\* the other, each to one of the two or to an identifier that is not
\* stored; links may form cycles and heights need not fit.
WalkIds == {IdBase + 1, IdBase + 2}

WalkTargets == WalkIds \cup {IdBase + 3}

\* a walk starts at the first record or at the identifier that is not stored
WalkStartIds == {IdBase + 1, IdBase + 3}

WalkBackLinks == {<<>>} \cup {<<a>> : a \in WalkTargets}

WalkLinks == WalkBackLinks \cup {<<a, b>> : a, b \in WalkTargets}

WalkRecord(id, height, links) ==
    [ blockId |-> id, blockHeight |-> height, previousBlockIds |-> links,
      block |-> <<>>, receipt |-> <<>> ]

WalkStore(height, links, otherHeight, otherLinks) ==
    [id \in WalkIds |->
        IF id = IdBase + 1 THEN MarshalRecord(WalkRecord(id, height, links))
        ELSE MarshalRecord(WalkRecord(id, otherHeight, otherLinks))]

WalkStores ==
    { WalkStore(height, links, otherHeight, otherLinks) :
        height \in Heights, links \in WalkLinks,
        otherHeight \in Heights, otherLinks \in WalkBackLinks }

InitWalk ==
    /\ storage \in WalkStores
    /\ last = [op |-> "none"]
    /\ offered = {}
    /\ callers = [p \in 1..NumCallers |-> Idle]
    /\ ncalls = 0
    /\ quiescent = <<>>
    /\ batch = {}
    /\ written = <<>>
    /\ backend = "map"
    /\ history = <<>>

IsWalk == last.op = "getAncestorIDAtHeight"

\* getAncestorIDAtHeight is called: hasExpectedHeight is false, nothing is
\* fetched yet
WalkStarts(blockID, height) ==
    /\ Ready
    /\ last' = [op |-> "getAncestorIDAtHeight", start |-> blockID, height |-> height,
                blockID |-> blockID, expected |-> <<>>, fetched |-> <<>>,
                steps |-> 0, links |-> 0,
                done |-> FALSE, result |-> Ok(EmptyBytes)]
    /\ UNCHANGED <<storage, offered, callers, ncalls, quiescent, batch, written, backend, history>>

\* the heights of the records fetched, with the one this iteration fetches
FetchedWith(fetched, store, blockID) ==
    IF getBlockHeight(store, blockID).err # "" THEN fetched
    ELSE Append(fetched, getBlockHeight(store, blockID).val[1])

\* one iteration of the loop has run with the outcome step
WalkMoves(step) ==
    /\ IsWalk /\ ~last.done
    /\ last' = [last EXCEPT !.blockID = IF step.done THEN @ ELSE step.blockID,
                            !.expected = IF step.done THEN @ ELSE <<step.expected>>,
                            !.steps = @ + 1,
                            !.links = IF step.linked THEN @ + 1 ELSE @,
                            !.fetched = FetchedWith(@, storage, last.blockID),
                            !.done = step.done,
                            !.result = step.result]
    /\ UNCHANGED <<storage, offered, callers, ncalls, quiescent, batch, written, backend, history>>

WalkBegins == \E blockID \in WalkStartIds, height \in Heights : WalkStarts(blockID, height)

WalkStep ==
    /\ IsWalk /\ ~last.done
    /\ \E step \in {AncestorStep(storage, last.blockID, last.height, last.expected)} :
          WalkMoves(step)

WalkReturns == IsWalk /\ last.done /\ Respond

NextWalk == WalkBegins \/ WalkStep \/ WalkReturns

\* the loop runs on once it is entered
SpecWalk == InitWalk /\ [][NextWalk]_vars /\ WF_vars(WalkStep)

\* ------------------------------------------------ ancestor walks on a chain
\* AddBlock builds one chain, block n at height n on top of block n - 1;
\* getAncestorIDAtHeight is then called at the head of the chain for a
\* height below it and runs iteration by iteration.
ChainHead(store) == IdBase + Cardinality(DOMAIN store)

ChainBlock(store) ==
    Block(ChainHead(store) + 1,
          IF store = <<>> THEN ZeroBlockID ELSE ChainHead(store),
          Cardinality(DOMAIN store) + 1)

ExtendChain ==
    /\ Cardinality(DOMAIN storage) < MaxChainHeight
    /\ AddBlock(<<ChainBlock(storage)>>, <<>>)

ChainWalkBegins ==
    /\ storage # <<>>
    /\ \E height \in 0..(Cardinality(DOMAIN storage) - 1) :
          WalkStarts(ChainHead(storage), height)

\* AddBlock hands back its response
ChainResponds == last.op = "AddBlock" /\ Respond

NextChain == ExtendChain \/ ChainWalkBegins \/ WalkStep \/ WalkReturns \/ ChainResponds

SpecChain == Init /\ [][NextChain]_vars

\* --------------------------------------------- block ranges, any store content
\* fillBlocks and GetBlocksByHeight are called on stores like those of the
\* ancestor walks: records whose links may name any record or none, of any
\* height, the greatest height of a uint64 included
FillHeights == Heights \cup {MaxUint64}

FillStores ==
    { WalkStore(height, links, otherHeight, otherLinks) :
        height \in FillHeights, links \in WalkLinks,
        otherHeight \in FillHeights, otherLinks \in WalkBackLinks }

InitFill ==
    /\ storage \in FillStores
    /\ last = [op |-> "none"]
    /\ offered = {}
    /\ callers = [p \in 1..NumCallers |-> Idle]
    /\ ncalls = 0
    /\ quiescent = <<>>
    /\ batch = {}
    /\ written = <<>>
    /\ backend = "map"
    /\ history = <<>>

FillCounts == 0..(MaxNumBlocks + 1)

DoFillBlocks(lastID, numBlocks, returnBlock, result) ==
    /\ Ready
    /\ last' = [op |-> "fillBlocks", lastID |-> lastID, numBlocks |-> numBlocks,
                returnBlock |-> returnBlock, err |-> result.err, val |-> result.val]
    /\ UNCHANGED <<storage, offered, callers, ncalls, quiescent, batch, written, backend, history>>

FillAny ==
    \E lastID \in WalkTargets, numBlocks \in FillCounts, returnBlock \in BOOLEAN :
        DoFillBlocks(lastID, numBlocks, returnBlock,
                     fillBlocks(storage, lastID, numBlocks, returnBlock, FALSE))

QueryAny ==
    \E req \in HeightRequests(WalkTargets \cup {NilBytes}) :
        /\ req.returnBlock = FALSE /\ req.returnReceipt = FALSE
        /\ DoGetBlocksByHeight(req)

NextFill == FillAny \/ QueryAny \/ Respond

SpecFill == InitFill /\ [][NextFill]_vars

\* ------------------------------------------------- blocks that are refused
\* AddBlock of a block with any declared previous and any height, stored or
\* not, under an identifier that may be in the store
RefuseIds == {IdBase + 1, IdBase + 2}

AnyBlocks ==
    {Block(id, previous, h) :
        id \in RefuseIds, previous \in {ZeroBlockID} \cup RefuseIds, h \in Heights}

AddAnyBlock ==
    \E block \in AnyBlocks : AddBlock(<<block>>, <<>>)

\* AddBlock of a block whose identifier the backend does not take as a key
AddUnkeyedBlock ==
    \E id \in {NilBytes, EmptyBytes}, previous \in {ZeroBlockID} \cup DOMAIN storage :
        AddBlock(<<Block(id, previous, 1)>>, <<>>)

NextRefuse == AddAnyBlock \/ AddUnkeyedBlock \/ AddMalformedBlock \/ Respond

SpecRefuse == Init /\ [][NextRefuse]_vars

\* ------------------------------- block-accepted broadcasts, earlier handler
\* the broadcasts: the next block of a tree, or a block above height 1 whose
\* declared previous is not stored
OfferedBlocks(store) ==
    LET id == IdBase + Cardinality(DOMAIN BlockRecords(store)) + 1
    IN  {[block |-> <<block>>, receipt |-> <<>>] :
            block \in (IF id \in DispatchIds
                         THEN {Block(id, ZeroBlockID, h) : h \in 2..MaxHeight}
                         ELSE {})
                      \cup TreeBlocks(BlockRecords(store), DispatchIds)}

TopologyOf(block) ==
    [id |-> block.id, previous |-> GetHeaderPrevious(block),
     height |-> GetHeaderHeight(block)]

\* the earlier handler of the topic: the block goes to HandleRequest as an
\* AddBlock request, the response is dropped, and the topology of the block
\* goes to UpdateHighestBlock
AcceptedAndOffered(sub, result, topology) ==
    LET update == UpdateHighestBlockResult(result.store, topology)
    IN  /\ Ready
        /\ GetHighestBlock(storage).err = ""
        /\ storage' = update.store
        /\ last' = [op |-> "BlockAccepted", block |-> sub.block, parsed |-> TRUE,
                    panic |-> result.panic, response |-> result.response,
                    err |-> update.err]
        /\ offered' = offered \cup {topology.height}
        /\ written' = IF ReachesPut(Get(result.store, HighestBlockKey), topology)
                        THEN <<topology>> ELSE written
        /\ UNCHANGED <<callers, ncalls, quiescent, batch, backend, history>>

BlockAcceptedAndOffered ==
    \E sub \in OfferedBlocks(storage) :
        AcceptedAndOffered(sub, HandleRequest(storage, AcceptedRequest(sub)),
                           TopologyOf(sub.block[1]))

NextAccept ==
    Startup \/ BlockAcceptedAndOffered \/ MalformedBroadcast \/ DoGetHighestBlock
    \/ Respond

SpecAccept == Init /\ [][NextAccept]_vars

\* ------------------------------------------- reads next to running writers
\* A read request runs as its backend accesses, one Get at a time; last
\* holds the request, the store as it was when the request started, and the
\* locals of the handler between two accesses.
Reading(kind, req, store) ==
    [op |-> "Reading", kind |-> kind, req |-> req, snapshot |-> store,
     pc |-> IF kind = "height" THEN "head" ELSE "slot",
     blockID |-> NilBytes, expected |-> <<>>, endHeight |-> 0, numBlocks |-> 0,
     i |-> 0, items |-> <<>>, result |-> Ok(<<>>)]

ReadEnds(r, result) == [r EXCEPT !.pc = "done", !.result = result]

\* GetBlocksByHeight at its Get of the head
HeadRead(store, r) ==
    LET head  == getBlockHeight(store, r.req.headBlockId)
        last1 == r.req.ancestorStartHeight + (r.req.numBlocks - 1)
    IN  IF head.err # "" THEN ReadEnds(r, Fail(head.err))
        ELSE IF StartAboveHead(r.req.ancestorStartHeight, head.val[1])
          THEN ReadEnds(r, Fail("Block height mismatch"))
        ELSE [r EXCEPT !.pc = "walk", !.blockID = r.req.headBlockId,
                       !.endHeight = IF last1 > head.val[1] THEN head.val[1] ELSE last1,
                       !.numBlocks = IF last1 > head.val[1]
                                       THEN head.val[1] - r.req.ancestorStartHeight + 1
                                       ELSE r.req.numBlocks]

\* GetBlocksByHeight at a Get of getAncestorIDAtHeight
WalkRead(r, step) ==
    IF ~step.done
      THEN [r EXCEPT !.blockID = step.blockID, !.expected = <<step.expected>>]
    ELSE IF step.result.err \notin {"", "Block height mismatch"}
      THEN ReadEnds(r, Fail(step.result.err))
    ELSE [r EXCEPT !.pc = "fill", !.i = 0,
                   !.blockID = IF step.result.err = "" THEN step.result.val[1]
                               ELSE NilBytes,
                   !.items = [j \in 1..r.numBlocks |-> <<>>]]

\* GetBlocksByHeight at a Get of fillBlocks
FillRead(r, step) ==
    IF step.done THEN ReadEnds(r, step.result)
    ELSE IF r.i + 1 >= r.numBlocks
      THEN ReadEnds(r, HeightResponse(r.req, step.blockItems))
    ELSE [r EXCEPT !.blockID = step.lastID, !.items = step.blockItems, !.i = r.i + 1]

\* GetBlocksByID at the Get of its next id
SlotRead(store, r) ==
    LET ids   == r.req.blockIds[1]
        items == Append(r.items, SlotByID(store, ids[r.i + 1], r.req.returnBlock,
                                          r.req.returnReceipt))
    IN  IF r.i + 1 >= Len(ids) THEN ReadEnds(r, Ok(items))
        ELSE [r EXCEPT !.items = items, !.i = r.i + 1]

\* the next backend access of the read and what follows it up to the access
\* after
ReaderStep(store, r) ==
    IF r.pc = "head" THEN HeadRead(store, r)
    ELSE IF r.pc = "walk"
      THEN WalkRead(r, AncestorStep(store, r.blockID, r.endHeight, r.expected))
    ELSE IF r.pc = "fill"
      THEN FillRead(r, FillStep(store, r.blockID, r.numBlocks, r.i, r.items,
                                r.req.returnBlock, r.req.returnReceipt))
    ELSE SlotRead(store, r)

IsReading == last.op = "Reading"

\* the blocks stored before the read, and the block added next to it
ReadIds == {IdBase + 1, IdBase + 2, IdBase + 3}

OtherId == IdBase + 4

\* the store grows by a block of the tree before the read and the writers
\* next to it start
GrowTree ==
    /\ callers[1] = Idle /\ callers[2] = Idle
    /\ \E block \in TreeBlocks(storage, ReadIds) : AddBlock(<<block>>, <<>>)

GrowResponds == last.op = "AddBlock" /\ Respond

\* a read request about stored blocks starts: blocks by height from a stored
\* head, or stored blocks by id
ReadBegins ==
    /\ Ready
    /\ callers[1] = Idle /\ callers[2] = Idle
    /\ \/ \E req \in HeightRequests(DOMAIN BlockRecords(storage)) :
            /\ req.ancestorStartHeight >= 1 /\ req.numBlocks >= 1
            /\ req.returnBlock = FALSE /\ req.returnReceipt = FALSE
            /\ last' = Reading("height", req, storage)
       \/ \E req \in IDRequests(DOMAIN BlockRecords(storage)) :
            /\ req.blockIds # <<>> /\ Len(req.blockIds[1]) > 0
            /\ req.returnBlock = FALSE /\ req.returnReceipt = FALSE
            /\ last' = Reading("id", req, storage)
    /\ UNCHANGED <<storage, offered, callers, ncalls, quiescent, batch, written, backend, history>>

ReadRuns ==
    /\ IsReading /\ last.pc # "done"
    /\ last' = ReaderStep(storage, last)
    /\ UNCHANGED <<storage, offered, callers, ncalls, quiescent, batch, written, backend, history>>

ReadResponds == IsReading /\ last.pc = "done" /\ Respond

\* the blocks added next to a read: a block that is not stored, genesis or
\* child of a stored block
OtherBlocks(store) ==
    {Block(OtherId, ZeroBlockID, 1)}
    \cup {Block(OtherId, p, RecordOf(store, p).blockHeight + 1) :
            p \in DOMAIN BlockRecords(store)}

\* an AddBlock of another block starts while the read runs, and runs as its
\* backend accesses
OtherAddBegins ==
    /\ IsReading /\ last.pc # "done"
    /\ callers[1] = Idle
    /\ \E block \in OtherBlocks(storage) :
          callers' = [callers EXCEPT ![1] = Advance(AtLoop(block, <<>>))]
    /\ UNCHANGED <<storage, last, offered, ncalls, quiescent, batch, written, backend, history>>

OtherAddRuns ==
    /\ callers[1] # Idle /\ callers[1].pc # "done"
    /\ LET result == WriterStep(storage, callers[1])
       IN  /\ storage' = result.store
           /\ callers' = [callers EXCEPT ![1] = result.writer]
    /\ UNCHANGED <<last, offered, ncalls, quiescent, batch, written, backend, history>>

\* an UpdateHighestBlock for a stored block starts while the read runs: its
\* Get, then its Put
UpdateBegins ==
    /\ IsReading /\ last.pc # "done"
    /\ callers[2] = Idle
    /\ \E id \in DOMAIN BlockRecords(last.snapshot) :
          callers' = [callers EXCEPT ![2] =
                        [pc |-> "put",
                         topology |-> TopologyOf(RecordOf(storage, id).block[1]),
                         got |-> Get(storage, HighestBlockKey)]]
    /\ UNCHANGED <<storage, last, offered, ncalls, quiescent, batch, written, backend, history>>

UpdateFinishes ==
    /\ callers[2] # Idle /\ callers[2].pc = "put"
    /\ storage' = UpdateAfterGet(storage, callers[2].got, callers[2].topology).store
    /\ callers' = [callers EXCEPT ![2] = [pc |-> "done"]]
    /\ UNCHANGED <<last, offered, ncalls, quiescent, batch, written, backend, history>>

NextReaders ==
    \/ GrowTree \/ GrowResponds \/ ReadBegins \/ ReadRuns \/ ReadResponds
    \/ OtherAddBegins \/ OtherAddRuns \/ UpdateBegins \/ UpdateFinishes

SpecReaders == Init /\ [][NextReaders]_vars

\* ------------------------------------------------ the transaction endpoints
\* A transaction id is a multihash [id, digest]; the digest is a byte string
\* (0 the empty one).  A blob is <<>> (nil) or <<bytes>>, bytes a sequence.
DigestSpan == 10

TxBase == 100

\* Multihash.Serialize: the hash id and the length-prefixed digest, a key of
\* at least two bytes whatever the digest
SerializeMultihash(tid) == TxBase + tid.id * DigestSpan + tid.digest

\* TransactionRecord.Serialize: the length of the blob, then its bytes
SerializeTransactionRecord(blob) == <<Len(blob)>> \o blob

\* DeserializeTransactionRecord: [err, consumed, blob]
DeserializeTransactionRecord(bytes) ==
    IF Len(bytes) = 0 \/ Len(bytes) < 1 + bytes[1]
      THEN [err |-> "Could not deserialize variable blob", consumed |-> 0, blob |-> <<>>]
      ELSE [err |-> "", consumed |-> 1 + bytes[1],
            blob |-> SubSeq(bytes, 2, 1 + bytes[1])]

\* HandleAddTransactionReq: [err, store]
HandleAddTransactionReq(store, req) ==
    IF req.transactionBlob = <<>>
      THEN [err |-> "Transaction blob is Nil", store |-> store]
    ELSE IF PutError(SerializeMultihash(req.transactionID)) # ""
      THEN [err |-> PutError(SerializeMultihash(req.transactionID)), store |-> store]
    ELSE [err |-> "",
          store |-> Put(store, SerializeMultihash(req.transactionID),
                        SerializeTransactionRecord(req.transactionBlob[1]))]

TransactionItem(blob) == [transactionBlob |-> blob]

\* a loop body that answers an id that is not stored with an empty item
TransactionItemOrEmpty(store, tid) ==
    LET got == Get(store, SerializeMultihash(tid))
    IN  IF got.err # "" THEN Fail(got.err)
        ELSE IF Len(got.val[1]) = 0 THEN Ok(TransactionItem(<<>>))
        ELSE Ok(TransactionItem(DeserializeTransactionRecord(got.val[1]).blob))

\* the body of the loop of HandleGetTransactionsByIdReq for one id
TransactionItemOf(store, tid) ==
    LET got == Get(store, SerializeMultihash(tid))
    IN  IF got.err # "" THEN Fail(got.err)
        ELSE IF Len(got.val[1]) = 0 THEN Fail("Transaction was not present")
        ELSE
          LET read == DeserializeTransactionRecord(got.val[1])
          IN  IF read.err # "" THEN Fail(read.err)
              ELSE IF read.consumed # Len(got.val[1])
                THEN Fail("Could not deserialize block")
              ELSE Ok(TransactionItem(read.blob))

\* the loop of HandleGetTransactionsByIdReq from the i-th id on
RECURSIVE TransactionsLoop(_, _, _, _)
TransactionsLoop(store, tids, i, items) ==
    IF i > Len(tids) THEN Ok(items)
    ELSE
      LET item == TransactionItemOf(store, tids[i])
      IN  IF item.err # "" THEN Fail(item.err)
          ELSE TransactionsLoop(store, tids, i + 1, Append(items, item.val[1]))

HandleGetTransactionsByIdReq(store, req) ==
    TransactionsLoop(store, req.transactionIds, 1, <<>>)

\* the requests: ids with an empty digest and with digests of one byte;
\* blobs that are nil, empty, and of one and two bytes
TxDigests == {0, 1, 2}

TxIds == [id : {1}, digest : TxDigests]

TxBlobs == {<<>>, <<<<>>>>, <<<<7>>>>, <<<<7, 8>>>>}

\* the transactions taken so far, the latest of each id
Taken(req) ==
    {t \in batch : t.id # req.transactionID}
    \cup {[id |-> req.transactionID, blob |-> req.transactionBlob[1]]}

DoAddTransaction(req) ==
    LET result == HandleAddTransactionReq(storage, req)
    IN  /\ Ready
        /\ storage' = result.store
        /\ last' = [op |-> "AddTransaction", req |-> req, err |-> result.err,
                    before |-> storage]
        /\ batch' = IF result.err = "" THEN Taken(req) ELSE batch
        /\ UNCHANGED <<offered, callers, ncalls, quiescent, written, backend, history>>

AddTransaction ==
    \E req \in [transactionID : TxIds, transactionBlob : TxBlobs] :
        DoAddTransaction(req)

DoGetTransactionsById(req) ==
    LET result == HandleGetTransactionsByIdReq(storage, req)
    IN  /\ Ready
        /\ last' = [op |-> "GetTransactionsById", req |-> req,
                    err |-> result.err, val |-> result.val]
        /\ UNCHANGED <<storage, offered, callers, ncalls, quiescent, batch, written, backend, history>>

GetTransactionsById ==
    \E tids \in SeqsUpTo(TxIds, MaxReqIds) :
        DoGetTransactionsById([transactionIds |-> tids])

NextTransactions == AddTransaction \/ GetTransactionsById \/ Respond

SpecTransactions == Init /\ [][NextTransactions]_vars

\* ------------------------------------------------ ancestry on a fork tree
\* the declared parent and height of a stored block, read from the block
\* payload of its record (not from the skip list)
DeclaredPrevious(store, id) == RecordOf(store, id).block[1].header[1].previous

DeclaredHeight(store, id) == RecordOf(store, id).block[1].header[1].height

\* the block at height h on the chain from genesis to id, found by
\* following the declared parents one at a time
RECURSIVE ChainAt(_, _, _)
ChainAt(store, id, h) ==
    IF DeclaredHeight(store, id) = h THEN id
    ELSE ChainAt(store, DeclaredPrevious(store, id), h)

Min(a, b) == IF a < b THEN a ELSE b

IsHeightQuery == last.op = "GetBlocksByHeight"

\* the last call was GetBlocksByHeight for a stored head
StoredHeadQuery == IsHeightQuery /\ last.req.headBlockId \in DOMAIN storage

\* C1: on a fork tree built parent before child, the ancestor of every
\* stored head at every height h from 1 to the head's height is the block
\* at height h on the chain from genesis to that head (the head itself for
\* h = its height), and GetBlocksByHeight(head, h, 1) returns that block.
AncestorOnOwnFork ==
    /\ \A head \in DOMAIN storage : \A h \in 1..DeclaredHeight(storage, head) :
          getAncestorIDAtHeight(storage, head, h) = Ok(ChainAt(storage, head, h))
    /\ (StoredHeadQuery /\ last.req.numBlocks = 1
        /\ last.req.ancestorStartHeight \in 1..DeclaredHeight(storage, last.req.headBlockId))
       => /\ last.err = ""
          /\ Len(last.val[1]) = 1
          /\ ItemBlockId(last.val[1][1])
               = ChainAt(storage, last.req.headBlockId, last.req.ancestorStartHeight)
          /\ ItemBlockHeight(last.val[1][1]) = last.req.ancestorStartHeight

\* a head at height 4 was asked for its ancestor at height 1 or 2 (reached
\* over a skip link), and a sibling fork has another block at that height
AncestorOnOwnForkWitness ==
    /\ StoredHeadQuery /\ last.req.numBlocks = 1 /\ last.err = ""
    /\ DeclaredHeight(storage, last.req.headBlockId) = 4
    /\ last.req.ancestorStartHeight \in {1, 2}
    /\ \E other \in DOMAIN storage :
          /\ DeclaredHeight(storage, other) = last.req.ancestorStartHeight
          /\ other # ItemBlockId(last.val[1][1])

\* C2: GetBlocksByHeight(head, s, n) with n >= 1 and 1 <= s <= height(head)
\* returns min(n, height(head) - s + 1) items, at heights s, s+1, ... in
\* that order, each the block at that height on the fork ending at head.
RangeOnOwnFork ==
    (StoredHeadQuery /\ last.req.numBlocks >= 1
     /\ last.req.ancestorStartHeight \in 1..DeclaredHeight(storage, last.req.headBlockId))
    => LET head  == last.req.headBlockId
           start == last.req.ancestorStartHeight
           count == Min(last.req.numBlocks, DeclaredHeight(storage, head) - start + 1)
       IN  /\ last.err = ""
           /\ Len(last.val[1]) = count
           /\ \A i \in 1..count :
                 /\ last.val[1][i] # <<>>
                 /\ ItemBlockHeight(last.val[1][i]) = start + i - 1
                 /\ ItemBlockId(last.val[1][i]) = ChainAt(storage, head, start + i - 1)

\* a range of two blocks was returned for a head that has a sibling fork
RangeOnOwnForkWitness ==
    /\ StoredHeadQuery /\ last.err = ""
    /\ Len(last.val[1]) = 2
    /\ \E other \in DOMAIN storage :
          /\ DeclaredHeight(storage, other) = ItemBlockHeight(last.val[1][1])
          /\ other # ItemBlockId(last.val[1][1])

\* C3: GetBlocksByHeight(head, s, n) with n >= 1 for a stored head and
\* s > height(head) fails with "Block height mismatch" and returns no items.
StartAboveHeadFails ==
    (StoredHeadQuery /\ last.req.numBlocks >= 1
     /\ last.req.ancestorStartHeight > DeclaredHeight(storage, last.req.headBlockId))
    => (last.err = "Block height mismatch" /\ last.val = <<>>)

StartAboveHeadFailsWitness ==
    /\ StoredHeadQuery /\ last.req.numBlocks >= 1
    /\ last.req.ancestorStartHeight = DeclaredHeight(storage, last.req.headBlockId) + 1
    /\ last.err = "Block height mismatch"

\* ------------------------------------------------------- blocks by their id
IsIDQuery == last.op = "GetBlocksByID"

\* the slot is the zero-valued placeholder: empty id, height 0, no payload
IsPlaceholder(slot) ==
    /\ ItemBlockId(slot) = EmptyBytes
    /\ ItemBlockHeight(slot) = 0
    /\ slot # <<>> => (slot[1].block = <<>> /\ slot[1].receipt = <<>>)

\* the slot describes the stored block id
DescribesStored(slot, id) ==
    /\ slot # <<>>
    /\ ItemBlockId(slot) = id
    /\ ItemBlockHeight(slot) = DeclaredHeight(storage, id)

\* C4: GetBlocksByID does not fail because a block is missing: for a list
\* of ids it returns as many slots as ids, slot i with the id and height of
\* ids[i] when that block is stored and the zero-valued placeholder (empty
\* block id, height 0) when it is not.
MissingIsPlaceholder ==
    /\ (IsIDQuery /\ last.req.blockIds # <<>>)
       => LET ids == last.req.blockIds[1]
          IN  /\ last.err = ""
              /\ Len(last.val[1]) = Len(ids)
              /\ \A i \in 1..Len(ids) :
                    IF ids[i] \in DOMAIN storage
                      THEN DescribesStored(last.val[1][i], ids[i])
                      ELSE IsPlaceholder(last.val[1][i])
    /\ \A id \in {ZeroBlockID, EmptyBytes} : \A rb \in BOOLEAN, rr \in BOOLEAN :
          LET result == GetBlocksByID(storage, [blockIds |-> <<<<id>>>>,
                                                 returnBlock |-> rb, returnReceipt |-> rr])
          IN  /\ result.err = ""
              /\ Len(result.val[1]) = 1
              /\ IsPlaceholder(result.val[1][1])

\* a missing id and a stored id were asked for, in that order
MissingIsPlaceholderWitness ==
    /\ IsIDQuery /\ last.err = ""
    /\ last.req.blockIds # <<>>
    /\ Len(last.req.blockIds[1]) = 2
    /\ last.req.blockIds[1][1] \notin DOMAIN storage
    /\ last.req.blockIds[1][2] \in DOMAIN storage
    /\ DescribesStored(last.val[1][2], last.req.blockIds[1][2])

\* C5: after AddBlock(B, receipt) has succeeded, GetBlocksByID([B.id]) with
\* both flags set returns one item with B's id, B's height, B and the
\* receipt; a payload whose flag is not set is left out.
RoundTrip ==
    (last.op = "AddBlock" /\ last.err = "")
    => \A rb \in BOOLEAN, rr \in BOOLEAN :
          LET B      == last.block[1]
              result == GetBlocksByID(storage, [blockIds |-> <<<<B.id>>>>,
                                                 returnBlock |-> rb, returnReceipt |-> rr])
          IN  /\ result.err = ""
              /\ result.val[1] =
                   << <<BlockItem(B.id, B.header[1].height,
                                  IF rb THEN <<B>> ELSE <<>>,
                                  IF rr THEN last.receipt ELSE <<>>)>> >>

\* a block above the genesis was added together with a receipt
RoundTripWitness ==
    /\ last.op = "AddBlock" /\ last.err = ""
    /\ last.receipt # <<>>
    /\ last.block[1].header[1].height >= 2
    /\ last.block[1].id \in DOMAIN storage

\* C6: AddBlock of a block that the store already holds, with the same
\* content and receipt, succeeds and leaves every key of the store as it
\* was, whatever blocks were added in between.
ReAddIsIdempotent ==
    [][(last'.op = "AddBlock" /\ last'.readd)
       => (last'.err = "" /\ storage' = storage)]_vars

\* a block with a skip list was added again after a later block was added
ReAddIsIdempotentWitness ==
    /\ last.op = "AddBlock" /\ last.readd /\ last.err = ""
    /\ Len(RecordOf(storage, last.block[1].id).previousBlockIds) >= 2
    /\ \E later \in DOMAIN storage : later > last.block[1].id

\* ------------------------------------------------------ the highest block
\* a topology is present under the reserved key (the Get returns bytes)
HighestPresent(store) == Len(HighestBytes(store)) > 0

StoredTopology(store) == UnmarshalTopology(HighestBytes(store))

StoredHeight(store) == StoredTopology(store).height

MaxOf(S) == CHOOSE m \in S : \A n \in S : n <= m

IsUpdate == last.op = "UpdateHighestBlock"

\* C7: after any sequence of UpdateHighestBlock calls, one after the other,
\* starting from an empty key, the stored height is the greatest height
\* offered, whatever the order of the offers.
StoredIsMaxOffered ==
    offered # {} => StoredHeight(storage) = MaxOf(offered)

\* three different heights were offered, the last one not the greatest
StoredIsMaxOfferedWitness ==
    /\ IsUpdate /\ last.err = ""
    /\ Cardinality(offered) >= 3
    /\ last.req.height < MaxOf(offered)
    /\ StoredHeight(storage) = MaxOf(offered)

GotNothing(got) == got.err # "" \/ Len(got.val[1]) = 0

\* the Get of the call gave bytes that do not decode
GotCorrupt(got) == got.err = "" /\ Len(got.val[1]) > 0 /\ UnmarshalError(got.val[1])

\* C11 as stated: UpdateHighestBlock writes the new topology and returns
\* no error whenever the current value is absent or unreadable, the read
\* failing or the stored bytes not decoding.
UnreadableIsOverwritten ==
    [][(last'.op = "UpdateHighestBlock"
        /\ (GotNothing(last'.got) \/ GotCorrupt(last'.got)))
       => (last'.err = ""
           /\ HighestBytes(storage') = MarshalTopology(last'.req))]_vars

\* C11 amended: when the value is absent or the read fails,
\* UpdateHighestBlock puts the new topology; when the stored bytes do not
\* decode it returns "Current highest block corrupted" and leaves the store
\* as it was.
UnreadableHandling ==
    [][last'.op = "UpdateHighestBlock"
       => /\ GotNothing(last'.got)
               => (last'.err = ""
                   /\ HighestBytes(storage') = MarshalTopology(last'.req))
          /\ GotCorrupt(last'.got)
               => (last'.err = "Current highest block corrupted"
                   /\ storage' = storage)]_vars

\* an update found bytes that do not decode and refused
UnreadableHandlingWitness ==
    /\ IsUpdate
    /\ GotCorrupt(last.got)
    /\ last.err = "Current highest block corrupted"
    /\ HighestBytes(storage) = CorruptBytes

UnexpectedHeightError == "Unexpected height (corrupt block store?)"

\* the topology has an encoding of its own: some field is not at its default
HasEncoding(topology) == Len(MarshalTopology(topology)) > 0

IsDispatch == last.op = "HandleRequest"

\* C13: HandleRequest is total: for every request variant and every store
\* content it returns one response, the typed response of the request's
\* variant or an Error response with the error text of the operation; it
\* never panics.
HandlerIsTotal ==
    IsDispatch
    => /\ ~last.panic
       /\ \/ last.response.variant = "error" /\ last.response.message # ""
          \/ last.req # <<>> /\ last.response.variant = last.req[1].variant

\* C14: the Reserved variant is answered with the Error response 'Reserved
\* request is not supported', a nil request or an unmatched variant with the
\* Error response 'Unknown request'; the store is left as it is.
ReservedAndUnknown ==
    [][(last'.op = "HandleRequest"
        /\ (last'.req = <<>> \/ last'.req[1].variant \in {"reserved", "unset"}))
       => /\ ~last'.panic
          /\ storage' = storage
          /\ last'.response =
                IF last'.req # <<>> /\ last'.req[1].variant = "reserved"
                  THEN ErrorResponse("Reserved request is not supported")
                  ELSE ErrorResponse("Unknown request")]_vars

\* C15: the RPC shell sends no reply of more than MaxMessageSize bytes: a
\* response whose encoding is larger is replaced by the Error response
\* 'Response would exceed maximum MQ message size', any other response is
\* sent as it is.
ReplyWithinCap ==
    last.op = "RPC"
    => /\ last.reply.len <= MaxMessageSize
       /\ last.reply.len = EncodedSize(last.reply.response)
       /\ IF EncodedSize(last.response) > MaxMessageSize
            THEN last.reply.response = TooLarge
            ELSE last.reply.response = last.response

\* a response of exactly the greatest size was sent as it is
ReplyWithinCapWitness ==
    /\ last.op = "RPC"
    /\ EncodedSize(last.response) = MaxMessageSize
    /\ last.reply.response = last.response

\* ------------------------------------------------------------ the backends
\* the value the operations logged so far leave under the key: that of the
\* latest put of the key, empty when a delete of the key or a reset came later
\* or the key was never put
RECURSIVE LatestValue(_, _)
LatestValue(log, key) ==
    IF log = <<>> THEN <<>>
    ELSE LET latest == log[Len(log)] IN
        IF latest.op = "reset" THEN <<>>
        ELSE IF latest.key # key THEN LatestValue(SubSeq(log, 1, Len(log) - 1), key)
        ELSE IF latest.op = "delete" THEN <<>>
        ELSE latest.value

RejectedPutChangesNothing ==
    [][(last'.op = "Put" /\ (last'.key \in {NilBytes, EmptyBytes} \/ last'.valueIsNil))
        => /\ last'.err # ""
           /\ storage' = storage
           /\ \A key \in BackendKeys :
                  BackendGet(backend', storage', key) = BackendGet(backend, storage, key)]_vars

\* a Put with an empty key was refused by a backend that holds a value
RejectedPutChangesNothingWitness ==
    /\ last.op = "Put"
    /\ last.key = EmptyBytes
    /\ ~last.valueIsNil
    /\ last.err # ""
    /\ backend = "badger"
    /\ \E key \in ValidKeys : key \in DOMAIN storage

\* --------------------------------------------------------------- keyspaces
\* C19: no AddBlock call changes the value stored under the reserved key,
\* whatever the block identifier it accepts, and no UpdateHighestBlock call
\* changes the value stored under any other key.
ReservedKeyApart ==
    [][/\ last'.op = "AddBlock"
            => Get(storage', HighestBlockKey) = Get(storage, HighestBlockKey)
       /\ last'.op = "UpdateHighestBlock"
            => BlockRecords(storage') = BlockRecords(storage)]_vars

\* the value under the key is the record AddBlock stored for a block of
\* that identifier
StoredByAddBlock(store, id) ==
    /\ id \in DOMAIN store
    /\ RecordOf(store, id).blockId = id
    /\ RecordOf(store, id).block # <<>>

\* C20: once AddBlock of a block has succeeded, the record under the
\* identifier of the block stays as it is through every AddBlock call for
\* another identifier, every UpdateHighestBlock call and every read.
RecordsArePermanent ==
    [][\A id \in DOMAIN storage :
          (/\ StoredByAddBlock(storage, id)
           /\ ~(last'.op = "AddBlock" /\ last'.block[1].id = id))
          => (id \in DOMAIN storage' /\ storage'[id] = storage[id])]_vars

\* ------------------------------------------------------- concurrent writers
\* the store after AddBlock of the blocks one after the other
RECURSIVE AddAll(_, _)
AddAll(store, blocks) ==
    IF blocks = <<>> THEN store
    ELSE AddAll(AddBlockResult(store, <<Head(blocks)>>, <<>>).store, Tail(blocks))

\* the orders in which the blocks of a set can be added
Orders(S) ==
    {order \in [1..Cardinality(S) -> S] :
        \A i, j \in 1..Cardinality(S) : i # j => order[i] # order[j]}

WritersDone == \A p \in Writers : callers[p].pc = "done"

\* C18: two AddBlock calls for blocks of different ids, whose ancestors are
\* stored, both succeed however their Gets and Puts interleave, and leave
\* the store that adding the two blocks one after the other leaves, in
\* either order.
WritersCommute ==
    WritersDone
    => /\ \A p \in Writers : callers[p].err = ""
       /\ \A order \in Orders(batch) : storage = AddAll(quiescent, order)

\* two blocks at height 4 were added over the same chain, and one writer
\* put its record between the Gets and the Put of the other
WritersCommuteWitness ==
    /\ WritersDone
    /\ \A p \in Writers :
          /\ GetHeaderHeight(callers[p].block) = 4
          /\ callers[p].block.id \notin DOMAIN quiescent
          /\ callers[p].gets >= 3
    /\ \E p \in Writers : callers[p].crossed

\* C9: the height stored under the reserved key never decreases, under any
\* interleaving of the Get and the Put of concurrent UpdateHighestBlock
\* calls.
HeightNeverDecreases ==
    [][StoredHeight(storage') >= StoredHeight(storage)]_vars

\* C10: when all the calls in flight have completed, the stored height is
\* at least the height stored before the first of them started, and it is
\* the height of one of the topologies they offered or the earlier height.
NotDrivenBackward ==
    (AllIdle /\ ncalls > 0)
    => /\ StoredHeight(storage) >= UnmarshalTopology(quiescent).height
       /\ \/ HighestBytes(storage) = quiescent
          \/ \E topology \in batch : StoredHeight(storage) = topology.height

\* two overlapping calls completed over an earlier topology and the
\* greater of their two heights was lost
NotDrivenBackwardWitness ==
    /\ AllIdle
    /\ Len(quiescent) > 0
    /\ Cardinality(batch) >= 2
    /\ StoredHeight(storage) > UnmarshalTopology(quiescent).height
    /\ \E topology \in batch : topology.height > StoredHeight(storage)

\* ------------------------------------------------------------ the broadcasts
\* C21: after the service has handled a block-accepted broadcast for a
\* block, the stored highest-block topology has a height of at least the
\* height of the block.
HighestCoversAccepted ==
    (last.op = "BlockAccepted" /\ last.parsed)
        => StoredHeight(storage) >= GetHeaderHeight(last.block[1])

\* ------------------------------------------------------- the skip-list math
\* the greatest k such that 2^k divides h, for h > 0
PowerOfTwoIn(h) == CHOOSE k \in 0..30 : h % 2^k = 0 /\ h % 2^(k + 1) # 0

\* C22: previousHeights(0) is empty, and for h > 0 previousHeights(h) is
\* [h - 2^0, ..., h - 2^k] with k the number of trailing zeros of h: k + 1
\* entries, strictly decreasing, each at least 0 and less than h.
PreviousHeightsShape ==
    last.op = "getPreviousHeights"
    => LET h == last.x
           list == last.val
       IN  /\ h = 0 => list = <<>>
           /\ h > 0 => /\ Len(list) = PowerOfTwoIn(h) + 1
                       /\ \A i \in 1..Len(list) :
                            /\ list[i] = h - 2^(i - 1)
                            /\ list[i] >= 0 /\ list[i] < h
                       /\ \A i \in 1..(Len(list) - 1) : list[i] > list[i + 1]
           /\ h = 16 => list = <<15, 14, 12, 8, 0>>

\* the list of height 16 was computed: five entries down to 0
PreviousHeightsShapeWitness ==
    /\ last.op = "getPreviousHeights"
    /\ last.x = 16
    /\ Len(last.val) = 5
    /\ last.val[5] = 0

\* C23: for goal < current, previousHeightIndex returns the index i and the
\* height y with y = previousHeights(current)[i] >= goal, i being the
\* greatest index of the list whose height is at least goal.
PreviousHeightIndexIsLargest ==
    (last.op = "getPreviousHeightIndex" /\ last.goal < last.current)
    => LET list == getPreviousHeights(last.current)
           fit  == {j \in 1..Len(list) : list[j] >= last.goal}
       IN  /\ last.err = ""
           /\ last.val[1][1] + 1 \in fit
           /\ \A j \in fit : j <= last.val[1][1] + 1
           /\ last.val[1][2] = list[last.val[1][1] + 1]
           /\ \/ last.val[1][1] + 1 = Len(list)
              \/ list[last.val[1][1] + 2] < last.goal

\* from height 16 towards 9 the index is 2 (height 12), not the last index
PreviousHeightIndexIsLargestWitness ==
    /\ last.op = "getPreviousHeightIndex"
    /\ last.current = 16 /\ last.goal = 9
    /\ last.val = << <<2, 12>> >>

\* ------------------------------------------------- the stored skip lists
\* the ancestor at height h of the stored block id, by its declared
\* previous links: the declared previous of the block of height h + 1
RECURSIVE AncestorAt(_, _, _)
AncestorAt(store, id, h) ==
    IF DeclaredHeight(store, id) = h + 1 THEN DeclaredPrevious(store, id)
    ELSE AncestorAt(store, DeclaredPrevious(store, id), h)

SameBytes(a, b) == a = b \/ (Len0(a) /\ Len0(b))

\* the last call was a successful AddBlock of a block of height at most 1
LowBlockAdded ==
    /\ last.op = "AddBlock" /\ last.err = ""
    /\ GetHeaderHeight(last.block[1]) <= 1

\* C25: AddBlock of a block of height 0 stores an empty previousBlockIds,
\* AddBlock of a block of height 1 stores the one-element list of the
\* declared previous, and the record stored does not depend on the store.
LowBlockSkipList ==
    LowBlockAdded
    => LET block  == last.block[1]
           record == RecordOf(storage, block.id)
       IN  /\ GetHeaderHeight(block) = 0 => record.previousBlockIds = <<>>
           /\ GetHeaderHeight(block) = 1
                => /\ Len(record.previousBlockIds) = 1
                   /\ SameBytes(record.previousBlockIds[1], GetHeaderPrevious(block))
           /\ storage[block.id]
                = AddBlockResult(<<>>, last.block, last.receipt).store[block.id]

\* ------------------------------------------ ancestor walks, any store content
\* the last iteration of the walk fetched a record: the one at last.blockID
FetchedLast == IsWalk /\ last.steps > 0 /\ Len(last.fetched) = last.steps

\* the call has ended with UnexpectedHeightError at the record fetched last
RefusedLast ==
    FetchedLast /\ last.done /\ last.result.err = UnexpectedHeightError

\* every record fetched is lower than the one fetched before it, unless it
\* is the record at which the call ended with UnexpectedHeightError; the
\* records before the last are above the height asked for
FetchedDecreasing ==
    IsWalk =>
      /\ \A i \in 1..(Len(last.fetched) - 1) :
            /\ last.fetched[i] > last.height
            /\ \/ last.fetched[i] > last.fetched[i + 1]
               \/ i + 1 = Len(last.fetched) /\ RefusedLast
      /\ Len(last.fetched) <= MaxHeight + 1

\* a fetched record whose height is not the height of the link followed, or
\* which has no link at the index to follow, ends the call with
\* UnexpectedHeightError
MismatchEndsWalk ==
    (FetchedLast /\ last.done) =>
       LET record == RecordOf(storage, last.blockID)
           idx    == getPreviousHeightIndex(last.height, record.blockHeight)
       IN  /\ (last.expected # <<>> /\ record.blockHeight # last.expected[1])
                => last.result.err = UnexpectedHeightError
           /\ (/\ last.expected = <<>> \/ record.blockHeight = last.expected[1]
               /\ record.blockHeight > last.height
               /\ idx.val[1][1] >= Len(record.previousBlockIds))
                => last.result.err = UnexpectedHeightError

\* C26: getAncestorIDAtHeight ends for every start, height and store content,
\* cyclic and ill-fitting links included: every walk that is entered reaches
\* its return, the heights of the records it fetches strictly decrease, and
\* a record whose height is not the one of the link followed, or which has
\* too few links, ends the call with UnexpectedHeightError.
WalkTerminates ==
    /\ [](FetchedDecreasing /\ MismatchEndsWalk)
    /\ (IsWalk ~> (IsWalk /\ last.done))

\* a walk on a cycle of two records has fetched both and ended with
\* UnexpectedHeightError at the second
WalkTerminatesWitness ==
    /\ IsWalk /\ last.done /\ Len(last.fetched) = 2
    /\ last.result.err = UnexpectedHeightError
    /\ last.blockID # last.start
    /\ last.start \in {l : l \in {RecordOf(storage, last.blockID).previousBlockIds[i] :
                         i \in 1..Len(RecordOf(storage, last.blockID).previousBlockIds)}}

\* ------------------------------------------------ ancestor walks on a chain
\* the greatest k with 2^k <= d, for d >= 1
Log2Floor(d) == CHOOSE k \in 0..30 : 2^k <= d /\ d < 2^(k + 1)

\* the height of the record the walk started at
StartHeight == DeclaredHeight(storage, last.start)

\* C27: on a chain built by AddBlock, getAncestorIDAtHeight(start, goal)
\* with d = height(start) - goal >= 1 follows at most 2 * floor(log2(d)) + 1
\* links and does at most that many backend reads, and returns the block of
\* the chain at the height asked for.
WalkIsLogarithmic ==
    (IsWalk /\ StartHeight - last.height >= 1)
    => /\ last.steps <= 2 * Log2Floor(StartHeight - last.height) + 1
       /\ last.links <= 2 * Log2Floor(StartHeight - last.height) + 1
       /\ last.done => /\ last.result = Ok(AncestorAt(storage, last.start, last.height))
                       /\ last.links = last.steps

\* the walk from height 31 to height 1 has ended after eight links, fewer
\* than the thirty of the parent links and within the bound of nine
WalkIsLogarithmicWitness ==
    /\ IsWalk /\ last.done /\ last.result.err = ""
    /\ StartHeight = 31 /\ last.height = 1
    /\ last.steps = 8 /\ last.links = 8

\* --------------------------------------------- block ranges, any store content
IsFill == last.op = "fillBlocks"

\* the slot holds an item
Populated(slot) == slot # <<>>

\* the identifier fillBlocks goes on with after the stored record id, or
\* NilBytes when the record has no link
FirstLink(store, id) ==
    IF RecordOf(store, id).previousBlockIds = <<>> THEN NilBytes
    ELSE RecordOf(store, id).previousBlockIds[1]

\* C28: a successful fillBlocks(lastID, n) returns n slots; a record that
\* is not in the store leaves its slot and every older slot a placeholder
\* and does not make the call fail or crash: the call for an identifier
\* that is not stored succeeds with n placeholders, and in a successful
\* result the slot before a populated one is a placeholder exactly when
\* the first link of that record names no stored record.
AbsentLeavesPlaceholders ==
    IsFill =>
      /\ last.err # PanicNilDeref
      /\ last.err = "" => Len(last.val[1]) = last.numBlocks
      /\ last.lastID \notin DOMAIN storage
           => /\ last.err = ""
              /\ \A k \in 1..last.numBlocks :
                    ~Populated(last.val[1][k]) /\ IsPlaceholder(last.val[1][k])
      /\ last.err = "" =>
           \A k \in 2..last.numBlocks :
              /\ ~Populated(last.val[1][k]) => ~Populated(last.val[1][k - 1])
              /\ Populated(last.val[1][k]) =>
                    (~Populated(last.val[1][k - 1])
                       <=> FirstLink(storage, ItemBlockId(last.val[1][k])) \notin DOMAIN storage)

\* three slots were asked for from a stored record whose first link names
\* a record that is not stored: the last slot holds the record, the two
\* older slots are placeholders
AbsentLeavesPlaceholdersWitness ==
    /\ IsFill /\ last.err = "" /\ last.numBlocks = 3
    /\ Populated(last.val[1][3])
    /\ ~Populated(last.val[1][2]) /\ ~Populated(last.val[1][1])
    /\ FirstLink(storage, last.lastID) = IdBase + 3

\* the heights of two adjacent populated slots differ by one, the older
\* slot first
AdjacentByOne(items) ==
    \A k \in 1..(Len(items) - 1) :
        (Populated(items[k]) /\ Populated(items[k + 1]))
        => /\ ItemBlockHeight(items[k]) < ItemBlockHeight(items[k + 1])
           /\ ItemBlockHeight(items[k + 1]) - ItemBlockHeight(items[k]) = 1

\* the first link of the stored record id names a stored record whose
\* height is not the height of id less one
LinkMisfits(store, id) ==
    /\ FirstLink(store, id) \in DOMAIN store
    /\ RecordOf(store, id).blockHeight
         - RecordOf(store, FirstLink(store, id)).blockHeight # 1

\* C29: in every successful result of fillBlocks and of GetBlocksByHeight,
\* whatever the store holds, the items are in increasing height order with
\* adjacent populated slots one height apart; a fetched record whose height
\* is not one less than the item after it makes fillBlocks fail with
\* UnexpectedHeightError.
RangeIsContiguous ==
    /\ (IsFill \/ IsHeightQuery) /\ last.err = "" /\ last.val # <<>>
         => AdjacentByOne(last.val[1])
    /\ (IsFill /\ last.numBlocks >= 2 /\ last.lastID \in DOMAIN storage
        /\ LinkMisfits(storage, last.lastID))
         => last.err = UnexpectedHeightError
    /\ (IsFill /\ last.err = "") =>
           \A k \in 2..last.numBlocks :
              Populated(last.val[1][k]) => ~LinkMisfits(storage, ItemBlockId(last.val[1][k]))

\* the walk of fillBlocks over n slots that is at iteration i with the
\* identifier id, expected holding the height the record must have, comes
\* to a stored record without links at an iteration before the last one
RECURSIVE EndsEarly(_, _, _, _, _)
EndsEarly(store, id, i, n, expected) ==
    IF i + 1 >= n \/ id \notin DOMAIN store THEN FALSE
    ELSE IF expected # <<>> /\ RecordOf(store, id).blockHeight # expected[1] THEN FALSE
    ELSE IF RecordOf(store, id).previousBlockIds = <<>> THEN TRUE
    ELSE EndsEarly(store, FirstLink(store, id), i + 1, n,
                   <<WrapDec(RecordOf(store, id).blockHeight)>>)

\* the same walk comes to a stored record without links at the last iteration
RECURSIVE EndsAtLast(_, _, _, _, _)
EndsAtLast(store, id, i, n, expected) ==
    IF i >= n \/ id \notin DOMAIN store THEN FALSE
    ELSE IF expected # <<>> /\ RecordOf(store, id).blockHeight # expected[1] THEN FALSE
    ELSE IF RecordOf(store, id).previousBlockIds = <<>> THEN i + 1 = n
    ELSE EndsAtLast(store, FirstLink(store, id), i + 1, n,
                    <<WrapDec(RecordOf(store, id).blockHeight)>>)

TraverseBeforeGenesisError == "Attempt to traverse before genesis"

\* C30: fillBlocks fails with TraverseBeforeGenesisError exactly when it
\* visits a record whose previousBlockIds is empty while more slots remain
\* (i + 1 < n); when such a record fills the last remaining slot the call
\* succeeds, with that record in the oldest slot.
TraverseOnlyBeforeLast ==
    IsFill =>
      /\ last.err = TraverseBeforeGenesisError
           <=> EndsEarly(storage, last.lastID, 0, last.numBlocks, <<>>)
      /\ EndsAtLast(storage, last.lastID, 0, last.numBlocks, <<>>)
           => /\ last.err = ""
              /\ Populated(last.val[1][1])
              /\ RecordOf(storage, ItemBlockId(last.val[1][1])).previousBlockIds = <<>>

\* two slots were asked for and the walk came to a record without links at
\* the second, the last, slot: the call succeeded
TraverseOnlyBeforeLastWitness ==
    /\ IsFill /\ last.err = "" /\ last.numBlocks = 2
    /\ Populated(last.val[1][1]) /\ Populated(last.val[1][2])
    /\ RecordOf(storage, ItemBlockId(last.val[1][1])).previousBlockIds = <<>>

\* ----------------------------------------------- the first slot of a range
\* the height of the stored head of the request
HeadHeight(store, req) == RecordOf(store, req.headBlockId).blockHeight

\* the request passes the checks on its arguments and on its head
PassesChecks(store, req) ==
    /\ req.numBlocks >= 1 /\ req.ancestorStartHeight >= 1
    /\ req.headBlockId \in DOMAIN store
    /\ req.ancestorStartHeight <= HeadHeight(store, req)

\* the height at which the range of the request ends
EndHeight(store, req) ==
    Min(req.ancestorStartHeight + req.numBlocks - 1, HeadHeight(store, req))

\* the slots fillBlocks gives for the range, when the ancestor at the end
\* height is found
RangeSlots(store, req) ==
    fillBlocks(store,
               getAncestorIDAtHeight(store, req.headBlockId, EndHeight(store, req)).val[1],
               EndHeight(store, req) - req.ancestorStartHeight + 1,
               req.returnBlock, req.returnReceipt)

\* fillBlocks has given slots whose first one is not at the start height:
\* a placeholder, or an item of another height
FirstSlotOff(store, req) ==
    /\ PassesChecks(store, req)
    /\ getAncestorIDAtHeight(store, req.headBlockId, EndHeight(store, req)).err = ""
    /\ RangeSlots(store, req).err = ""
    /\ ItemBlockHeight(RangeSlots(store, req).val[1][1]) # req.ancestorStartHeight

\* C31: GetBlocksByHeight never succeeds with items whose first one is not
\* at ancestorStartHeight, and whenever the first slot that fillBlocks gives
\* is not at that height, a placeholder for a missing block included, the
\* call returns UnexpectedHeightError.
FirstSlotAtStart ==
    IsHeightQuery =>
      /\ (last.err = "" /\ last.val # <<>> /\ last.val[1] # <<>>)
           => /\ Populated(last.val[1][1])
              /\ ItemBlockHeight(last.val[1][1]) = last.req.ancestorStartHeight
      /\ FirstSlotOff(storage, last.req) => last.err = UnexpectedHeightError

\* ------------------------------------------- the arguments of a height query
\* the request fails one of the checks on its arguments
BadArguments(req) ==
    req.numBlocks < 1 \/ req.ancestorStartHeight < 1 \/ req.headBlockId = NilBytes

NoBlocksIsEmptySuccess ==
    (StoredHeadQuery /\ last.req.numBlocks = 0
     /\ last.req.ancestorStartHeight <= DeclaredHeight(storage, last.req.headBlockId))
    => (last.err = "" /\ last.val = <<<<>>>> /\ last.reads = 0)

\* no blocks were asked for from height 2 of a stored head of height 3
NoBlocksIsEmptySuccessWitness ==
    /\ StoredHeadQuery /\ last.req.numBlocks = 0
    /\ last.req.ancestorStartHeight = 2
    /\ DeclaredHeight(storage, last.req.headBlockId) = 3
    /\ last.err = "" /\ last.val = <<<<>>>>

\* ------------------------------------------------ a head that is not stored
\* the last call asked for at least one block from a head that is an
\* identifier and is not in the store
AbsentHeadQuery ==
    /\ IsHeightQuery /\ last.req.numBlocks >= 1
    /\ last.req.headBlockId # NilBytes
    /\ last.req.headBlockId \notin DOMAIN storage

AddFails == last.op = "none" /\ last'.op = "AddBlock" /\ last'.err # ""

\* C35: an AddBlock that returns an error (no block payload, an ancestor
\* that is not stored, an ancestor of an unexpected height, a key the
\* backend refuses) has put nothing: the store after the call is the store
\* before it.
FailedAddPutsNothing == [][AddFails => storage' = storage]_vars

\* a block of height 4 was refused for an ancestor of an unexpected height,
\* with two blocks stored, one of them under the identifier of the block
FailedAddPutsNothingWitness ==
    /\ last.op = "AddBlock"
    /\ last.err = "Unexpected height (corrupt block store?)"
    /\ last.block # <<>> /\ last.block[1].id \in DOMAIN storage
    /\ GetHeaderHeight(last.block[1]) = 4
    /\ Cardinality(DOMAIN storage) = 2

\* ---------------------------------------------------------- parent closure
\* the previous block that the stored block declares is stored
HasParent(store, id) == DeclaredPrevious(store, id) \in DOMAIN store

\* C36 as stated: every stored block of height > 1 has its declared previous
\* block stored.
ParentClosure ==
    \A id \in DOMAIN storage :
        RecordOf(storage, id).blockHeight > 1 => HasParent(storage, id)

\* the last call was an AddBlock of a block with a header under a key the
\* backend takes
AddedKeyed ==
    /\ last.op = "AddBlock" /\ last.block # <<>>
    /\ last.block[1].header # <<>>
    /\ last.block[1].id \notin {NilBytes, EmptyBytes}

\* C36: every stored block of even height > 1 has its declared previous
\* block stored, because AddBlock resolves the ancestors below the parent
\* through the declared previous and fails, storing nothing, when that is
\* not stored; a block of odd height is stored with its declared previous
\* copied and never looked up, so it is stored whether or not its previous is.
ParentClosureEven ==
    /\ \A id \in DOMAIN storage :
          (RecordOf(storage, id).blockHeight > 1
           /\ RecordOf(storage, id).blockHeight % 2 = 0) => HasParent(storage, id)
    /\ (AddedKeyed /\ GetHeaderHeight(last.block[1]) % 2 = 1) => last.err = ""
    /\ (AddedKeyed /\ GetHeaderHeight(last.block[1]) > 1
        /\ GetHeaderHeight(last.block[1]) % 2 = 0
        /\ GetHeaderPrevious(last.block[1]) \notin DOMAIN storage)
         => last.err = BlockNotPresent(GetHeaderPrevious(last.block[1]))

\* a block of height 4 was refused for its previous that is not stored,
\* next to a stored block of height 2 whose previous is stored
ParentClosureEvenWitness ==
    /\ AddedKeyed /\ GetHeaderHeight(last.block[1]) = 4
    /\ GetHeaderPrevious(last.block[1]) \notin DOMAIN storage
    /\ last.err = BlockNotPresent(GetHeaderPrevious(last.block[1]))
    /\ \E id \in DOMAIN storage :
          RecordOf(storage, id).blockHeight = 2 /\ HasParent(storage, id)

\* ------------------------------------------- the block the highest one names
\* C37: whenever the stored highest-block topology has a height above 0, a
\* block record with its id and its height is in the store.
HighestNamesStored ==
    (GetHighestBlock(storage).err = "" /\ StoredHeight(storage) > 0)
      => /\ StoredTopology(storage).id \in DOMAIN BlockRecords(storage)
         /\ RecordOf(storage, StoredTopology(storage).id).blockHeight
              = StoredHeight(storage)

\* ------------------------------------------------ reads next to writers
\* what the request returns on the store as it was when the request started
ReadAlone(r) ==
    IF r.kind = "height" THEN GetBlocksByHeight(r.snapshot, r.req)
    ELSE GetBlocksByID(r.snapshot, r.req)

ReadDone == IsReading /\ last.pc = "done"

\* C38: a GetBlocksByHeight or GetBlocksByID request about blocks that were
\* stored before it started returns what it returns with nothing running
\* next to it, whatever AddBlock calls for other blocks and
\* UpdateHighestBlock calls run between its backend accesses.
ReadsIsolated == ReadDone => last.result = ReadAlone(last)

\* a read of two blocks by height ended after a block was added and the
\* highest block was written while it ran
ReadsIsolatedWitness ==
    /\ ReadDone /\ last.kind = "height"
    /\ last.result.err = "" /\ Len(last.result.val[1]) = 2
    /\ HighestBlockKey \in DOMAIN storage
    /\ HighestBlockKey \notin DOMAIN last.snapshot
    /\ DOMAIN BlockRecords(storage) # DOMAIN BlockRecords(last.snapshot)

\* ------------------------------------------------------ transactions by id
IsTxGet == last.op = "GetTransactionsById"

\* the blob of the transaction last taken under the id
TakenBlob(tid) == (CHOOSE t \in batch : t.id = tid).blob

WasTaken(tid) == \E t \in batch : t.id = tid

\* C39: GetTransactionsById returns one item per requested id, in the order
\* of the request, each the transaction last added under that id; when one
\* of the ids was never added the call fails with 'Transaction was not
\* present' and returns no items; adding under an id that is stored succeeds.
TransactionsInOrder ==
    /\ IsTxGet =>
         IF \A i \in 1..Len(last.req.transactionIds) : WasTaken(last.req.transactionIds[i])
           THEN /\ last.err = ""
                /\ Len(last.val[1]) = Len(last.req.transactionIds)
                /\ \A i \in 1..Len(last.req.transactionIds) :
                      last.val[1][i] = TransactionItem(TakenBlob(last.req.transactionIds[i]))
           ELSE last.err = "Transaction was not present" /\ last.val = <<>>
    /\ (last.op = "AddTransaction" /\ last.req.transactionBlob # <<>>
        /\ SerializeMultihash(last.req.transactionID) \in DOMAIN last.before)
         => (last.err = "" /\ WasTaken(last.req.transactionID)
             /\ TakenBlob(last.req.transactionID) = last.req.transactionBlob[1])

\* two transactions with different blobs were returned in the order of the
\* request, the greater key first
TransactionsInOrderWitness ==
    /\ IsTxGet /\ last.err = "" /\ Len(last.val[1]) = 2
    /\ last.req.transactionIds[1].digest > last.req.transactionIds[2].digest
    /\ last.val[1][1] # last.val[1][2]

\* -------------------------------------------- transactions that are refused
\* the identifier or the payload of the last AddTransaction is nil or empty
EmptyTransaction ==
    /\ last.op = "AddTransaction"
    /\ \/ last.req.transactionBlob = <<>>
       \/ last.req.transactionBlob = <<<<>>>>
       \/ last.req.transactionID.digest = 0

\* C40: AddTransaction refuses a nil or empty transaction identifier, and a
\* nil or empty payload, with an error, and stores nothing.
EmptyTransactionRefused ==
    EmptyTransaction => (last.err # "" /\ storage = last.before)

\* a nil payload is refused with the error of its own and nothing is stored
NilTransactionRefused ==
    (last.op = "AddTransaction" /\ last.req.transactionBlob = <<>>)
      => (last.err = "Transaction blob is Nil" /\ storage = last.before)

====
